---- MODULE Spec2Model ----
(***************************************************************************)
(* Attendance mobile client: session store, request builder, capture      *)
(* payload encoder, check-in/check-out orchestration, paginated list       *)
(* screens and password validation.                                        *)
(*                                                                         *)
(* Strings that the code inspects character by character (image URIs,      *)
(* passwords, form values) are sequences of one-character strings.         *)
(* Strings that the code only passes around or concatenates (tokens,       *)
(* header values, messages) are TLA+ strings.                              *)
(***************************************************************************)
EXTENDS Integers, Sequences, FiniteSets, Bags, TLC

VARIABLES
  \* ---- AsyncStorage (AuthService) ----
  token,        \* entry 'token': a token string, or NULL when absent
  user,         \* entry 'user': role of the stored identity, or NULL
  \* ---- navigation ----
  route,        \* current root of the stack navigator
  \* ---- LoginScreen / AuthService.login ----
  loginPc,      \* position of handleLogin/login
  loginData,    \* role in the parsed body of the ok login response
  \* ---- ProfileScreen.handleLogout / AuthService.logout ----
  logoutPc,
  \* ---- EmployeeHomeScreen ----
  status,       \* useState status
  homeLoading,  \* useState loading
  capturing,    \* useState capturing
  processing,   \* useState processing
  shots,        \* takePictureAsync calls not yet resolved
  flows,        \* handleCheckIn / handleCheckOut invocations
  statusReqs,   \* getStatus requests of the mounted screen in flight
  interval,     \* the setInterval timer of the mounted screen is set
  \* ---- observation of one step ----
  wire,         \* the HTTP request issued by the step (NoReq if none)
  handled,      \* HTTP status of the response handled by the step
  alert,        \* the Alert.alert shown by the step (NoAlert if none)
  done,         \* the check-in/check-out attempt finished by the step
  located,      \* the position getCurrentPositionAsync gave to the step
  pressed,      \* the button of an Alert pressed in the step
  \* ---- the admin's screens ----
  adminTab,     \* the admin screen in use
  regForm,      \* AdminRegisterScreen: the fields and capturedImage
  shiftForm,    \* ShiftFormScreen: shiftName, selectedDays and the shift edited
  selectedShift,\* AssignShiftScreen: useState selectedShift
  employees,    \* AdminEmployeesScreen: useState employees
  shifts,       \* AdminShiftsScreen: useState shifts
  saving,       \* loading / saving of the form screen in use
  prompt,       \* the Alert with buttons that is open
  pending,      \* requests of the admin screens in flight
  settings,     \* AdminSettingsScreen: useState settings
  \* ---- capture payload encoder, applied on its own ----
  encOp, encUri, encDone,
  \* ---- paginated list screens ----
  screen,       \* which list screen is mounted
  page,         \* useState page
  records,      \* useState records / employees
  pagination,   \* useState pagination
  refreshing,   \* useState refreshing
  listLoading,  \* useState loading
  inflight,     \* list requests in flight: the page each one asks for
  srvPages,     \* the backend's current page count of the list
  lastEvt,      \* what the step did
  watch,        \* "refresh" from a pull-to-refresh on a quiet screen until
                \* the next event that is not a successful response
  \* ---- AdminRegisterScreen.validatePassword, applied on its own ----
  pwd, pwdResult,
  \* ---- AuthService, its methods called on their own ----
  authPc,       \* position of the running login / logout call
  authData,     \* body of the ok login response being stored
  got,          \* what the last completed AuthService call returned
  \* ---- AdminAttendanceScreen and its filter ----
  employeeIdFilter, \* useState employeeIdFilter
  selectedDate,     \* useState selectedDate
  attPage,          \* useState page
  queries,          \* getAttendance requests in flight
  shown,            \* the request whose response records / pagination hold
  filterWatch       \* "filter" from a filter change on a quiet screen until
                    \* the next event that is not a successful response

sessionVars == <<token, user>>
loginVars   == <<loginPc, loginData>>
homeVars    == <<status, homeLoading, capturing, processing, shots, flows,
                 statusReqs, interval>>
obsVars     == <<wire, handled, alert, done, located, pressed>>
encVars     == <<encOp, encUri, encDone>>
pagerVars   == <<screen, page, records, pagination, inflight, refreshing,
                 listLoading, srvPages, lastEvt, watch>>
pwdVars     == <<pwd, pwdResult>>
authVars    == <<authPc, authData, got>>
filterVars  == <<employeeIdFilter, selectedDate, attPage, queries, shown,
                 filterWatch>>
adminVars   == <<adminTab, regForm, shiftForm, selectedShift, employees, shifts,
                 saving, prompt, pending, settings>>
appVars     == <<sessionVars, route, loginVars, logoutPc, homeVars, obsVars,
                 adminVars>>
vars        == <<appVars, encVars, pagerVars, pwdVars, authVars, filterVars>>
notApp      == <<encVars, pagerVars, pwdVars, authVars, filterVars>>
notEnc      == <<sessionVars, route, loginVars, logoutPc, homeVars, handled,
                 alert, done, located, pressed, adminVars, pagerVars, pwdVars,
                 authVars, filterVars>>
notPager    == <<appVars, encVars, pwdVars, authVars, filterVars>>
notPwd      == <<appVars, encVars, pagerVars, authVars, filterVars>>
notAuth     == <<route, loginVars, logoutPc, homeVars, obsVars, adminVars,
                 encVars, pagerVars, pwdVars, filterVars>>
notFilter   == <<appVars, encVars, pagerVars, pwdVars, authVars>>

(***************************************************************************)
(* Bounds                                                                  *)
(***************************************************************************)
MaxUriLen   == 13   \* longest image reference tried by the encoder
MaxPwdLen   == 8    \* longest generated password
MaxFlows    == 2    \* check-in/check-out invocations alive at once
MaxStatus   == 1    \* getStatus requests in flight at once
MaxPages    == 3    \* largest page count the backend reports
MaxInflight == 3    \* list requests in flight at once
MaxLoads    == 1    \* list loads of an admin screen in flight at once
MaxMutations == 1   \* delete / status requests of a list screen in flight
MaxQueries  == 3    \* getAttendance requests in flight at once
AttPages    == 2    \* page count the backend reports for each attendance query
PageSize    == 2    \* records on a full page

(***************************************************************************)
(* JavaScript values                                                       *)
(***************************************************************************)
NULL == "null"          \* null; also what a template literal prints for it
NoHeader == "<absent>"  \* a header the request does not carry

StartsWith(s, p) == Len(s) >= Len(p) /\ SubSeq(s, 1, Len(p)) = p

Truthy(s) == Len(s) > 0

RegexTest(class, s) == \E i \in 1..Len(s) : s[i] \in class

(***************************************************************************)
(* AsyncStorage / AuthService                                              *)
(***************************************************************************)
Roles == {"admin", "employee"}

TokenOf(role) == IF role = "admin" THEN "tokA" ELSE "tokE"

Tokens == {TokenOf(r) : r \in Roles}

\* an AsyncStorage entry that holds text; the entry 'token' holds a token
\* string or NULL
Item(text) == [has |-> TRUE, text |-> text]

NoItem == [has |-> FALSE, text |-> <<>>]

\* data.employee of a login response, and null
Employee(n, r) == [isNull |-> FALSE, name |-> n, role |-> r]

NullEmployee == [isNull |-> TRUE, name |-> <<>>, role |-> <<>>]

SyntaxError == [isNull |-> TRUE, name |-> <<"S","y","n","t","a","x">>,
                role |-> <<"E","r","r","o","r">>]

RoleChars(role) == IF role = "admin" THEN <<"a","d","m","i","n">>
                                     ELSE <<"e","m","p","l","o","y","e","e">>

EmployeeOf(role) == Employee(<<"n">>, RoleChars(role))

Quote     == "\""
Backslash == "\\"

JsonNoEscape(str) == str

\* the string literal body JSON.stringify writes for a string
RECURSIVE JsonEscape(_)
JsonEscape(str) ==
  IF str = <<>> THEN <<>>
  ELSE (IF Head(str) \in {Quote, Backslash} THEN <<Backslash, Head(str)>>
                                             ELSE <<Head(str)>>)
       \o JsonEscape(Tail(str))

NameKey == <<"{", Quote, "n","a","m","e", Quote, ":", Quote>>
RoleKey == <<",", Quote, "r","o","l","e", Quote, ":", Quote>>

\* JSON.stringify(data.employee)
JSONstringify(emp) ==
  NameKey \o JsonEscape(emp.name) \o <<Quote>> \o
  RoleKey \o JsonEscape(emp.role) \o <<Quote, "}">>

\* JSON.parse reading a string literal body up to its closing quote
RECURSIVE JsonReadString(_, _)
JsonReadString(text, acc) ==
  IF text = <<>> THEN [ok |-> FALSE, value |-> acc, rest |-> <<>>]
  ELSE IF Head(text) = Quote
    THEN [ok |-> TRUE, value |-> acc, rest |-> Tail(text)]
  ELSE IF Head(text) = Backslash
    THEN (IF Len(text) < 2
            THEN [ok |-> FALSE, value |-> acc, rest |-> <<>>]
            ELSE JsonReadString(Tail(Tail(text)), Append(acc, text[2])))
  ELSE JsonReadString(Tail(text), Append(acc, Head(text)))

\* JSON.parse of a stored identity
JSONparse(text) ==
  IF ~StartsWith(text, NameKey) THEN SyntaxError
  ELSE LET n == JsonReadString(SubSeq(text, Len(NameKey) + 1, Len(text)), <<>>)
       IN  IF ~n.ok \/ ~StartsWith(n.rest, RoleKey) THEN SyntaxError
           ELSE LET r == JsonReadString(
                           SubSeq(n.rest, Len(RoleKey) + 1, Len(n.rest)), <<>>)
                IN  IF r.ok /\ r.rest = <<"}">>
                      THEN Employee(n.value, r.value)
                      ELSE SyntaxError

\* the entry k after AsyncStorage.setItem(key, value), v being its value
\* before
setItemTokenOnly(key, k, v, value) ==
  IF k = key /\ k = "token" THEN value ELSE v

setItem(key, k, v, value) == IF k = key THEN value ELSE v

\* the entry k after AsyncStorage.removeItem(key), v being its value before
removeItemNoop(key, k, v) == v

removeItem(key, k, v) ==
  IF k # key THEN v ELSE IF k = "token" THEN NULL ELSE NoItem

\* AuthService.getToken: the stored entry, null when nothing is stored
getToken == token

\* AuthService.getUser: user ? JSON.parse(user) : null
getUser == IF user.has /\ Truthy(user.text) THEN JSONparse(user.text)
                                            ELSE NullEmployee

(***************************************************************************)
(* Requests                                                                *)
(***************************************************************************)
TextPart(n, v) == [name |-> n, kind |-> "text", value |-> v,
                   type |-> "", filename |-> ""]

FilePart(n, uri, t, fn) == [name |-> n, kind |-> "file", value |-> uri,
                            type |-> t, filename |-> fn]

Request(e, m, a, c, k, p) == [ep |-> e, method |-> m, auth |-> a, ctype |-> c,
                              bodyKind |-> k, parts |-> p]

NoReq == Request("none", "", NoHeader, NoHeader, "none", <<>>)

\* `Bearer ${token}`
Bearer(tok) == "Bearer " \o tok

DataImagePrefix == <<"d","a","t","a",":","i","m","a","g","e","/">>

\* the if/else of checkIn, checkOut and registerEmployee on imageUri
FacePartsAlwaysFile(imageUri) ==
  <<FilePart("face_image", imageUri, "image/jpeg", "face.jpg")>>

FaceParts(imageUri) ==
  IF StartsWith(imageUri, DataImagePrefix)
    THEN <<TextPart("face_image_base64", imageUri)>>
    ELSE <<FilePart("face_image", imageUri, "image/jpeg", "face.jpg")>>

Latitude  == <<"6", ".", "5">>
Longitude == <<"3", ".", "4">>

checkInRequest(tok, lat, lon, imageUri) ==
  Request("/api/attendance/check-in", "POST", Bearer(tok), NoHeader,
          "multipart",
          <<TextPart("latitude", lat), TextPart("longitude", lon)>>
            \o FaceParts(imageUri))

checkOutRequest(tok, lat, lon, imageUri) ==
  Request("/api/attendance/check-out", "POST", Bearer(tok), NoHeader,
          "multipart",
          <<TextPart("latitude", lat), TextPart("longitude", lon)>>
            \o FaceParts(imageUri))

EmployeeData == [employee_id |-> <<"7">>, name |-> <<"n">>, email |-> <<"e">>,
                 password |-> <<"V","a","l","i","d","1","P","a","s","s">>,
                 role |-> <<"e","m","p","l","o","y","e","e">>]

registerEmployeeRequest(tok, employeeData, imageUri) ==
  Request("/api/admin/register-employee", "POST", Bearer(tok), NoHeader,
          "multipart",
          <<TextPart("employee_id", employeeData.employee_id),
            TextPart("name", employeeData.name),
            TextPart("email", employeeData.email),
            TextPart("password", employeeData.password),
            TextPart("role", employeeData.role)>>
            \o FaceParts(imageUri))

getStatusRequest(tok) ==
  Request("/api/employee/status", "GET", Bearer(tok), NoHeader, "none", <<>>)

loginRequest(email, password) ==
  Request("/api/auth/login", "POST", NoHeader, "application/json", "json",
          <<TextPart("email", email), TextPart("password", password)>>)

(***************************************************************************)
(* Capture payload encoder applied to one image reference                  *)
(***************************************************************************)
DataUriSample ==
  <<"d","a","t","a",":","i","m","a","g","e","/","j","p","g",";","b","6","4">>

FileUriSample ==
  <<"f","i","l","e",":","/","/","/","c","/","d","a","t","a",":","i","m","g">>

Cut(s, n) == SubSeq(s, 1, IF n < Len(s) THEN n ELSE Len(s))

UriSamples ==
     { Cut(DataUriSample, n) : n \in 0..MaxUriLen }
  \cup { Cut(FileUriSample, n) : n \in 0..MaxUriLen }
  \cup { Cut([DataUriSample EXCEPT ![i] = "X"], MaxUriLen) :
            i \in 1..Len(DataImagePrefix) }

ImageOps == {"checkIn", "checkOut", "registerEmployee"}

EncodeRequest(op, tok, uri) ==
  CASE op = "checkIn"  -> checkInRequest(tok, Latitude, Longitude, uri)
    [] op = "checkOut" -> checkOutRequest(tok, Latitude, Longitude, uri)
    [] OTHER           -> registerEmployeeRequest(tok, EmployeeData, uri)

\* one call of an image submission, up to its fetch
EncSubmit ==
  /\ ~encDone
  /\ encDone' = TRUE
  /\ wire' = EncodeRequest(encOp, getToken, encUri)
  /\ UNCHANGED <<encOp, encUri>>
  /\ UNCHANGED notEnc

\* the next capture and the next submission
EncNext ==
  /\ encDone
  /\ encDone' = FALSE
  /\ encOp' \in ImageOps
  /\ encUri' \in UriSamples
  /\ wire' = NoReq
  /\ UNCHANGED notEnc

(***************************************************************************)
(* AdminRegisterScreen.validatePassword                                    *)
(***************************************************************************)
MinPasswordLength == 8

UpperChars == {"A","B","C","D","E","F","G","H","I","J","K","L","M",
               "N","O","P","Q","R","S","T","U","V","W","X","Y","Z"}
LowerChars == {"a","b","c","d","e","f","g","h","i","j","k","l","m",
               "n","o","p","q","r","s","t","u","v","w","x","y","z"}
DigitChars == {"0","1","2","3","4","5","6","7","8","9"}

validatePasswordOffByOne(p) ==
  IF Len(p) <= MinPasswordLength THEN "Password must be at least 8 characters"
  ELSE IF ~RegexTest(UpperChars, p) THEN "Password must contain uppercase letter"
  ELSE IF ~RegexTest(LowerChars, p) THEN "Password must contain lowercase letter"
  ELSE IF ~RegexTest(DigitChars, p) THEN "Password must contain a digit"
  ELSE NULL

validatePassword(p) ==
  IF Len(p) < MinPasswordLength THEN "Password must be at least 8 characters"
  ELSE IF ~RegexTest(UpperChars, p) THEN "Password must contain uppercase letter"
  ELSE IF ~RegexTest(LowerChars, p) THEN "Password must contain lowercase letter"
  ELSE IF ~RegexTest(DigitChars, p) THEN "Password must contain a digit"
  ELSE NULL

PwdAbc           == <<"a","b","c">>
PwdAllLowercase1 == <<"a","l","l","l","o","w","e","r","c","a","s","e","1">>
PwdAllUppercase1 == <<"A","L","L","U","P","P","E","R","C","A","S","E","1">>
PwdNoDigitsHere  == <<"N","o","D","i","g","i","t","s","H","e","r","e">>
PwdValid1Pass    == <<"V","a","l","i","d","1","P","a","s","s">>

PwdExamples == {PwdAbc, PwdAllLowercase1, PwdAllUppercase1, PwdNoDigitsHere,
                PwdValid1Pass}

PwdAlphabet == {"Q", "q", "4", "#"}

Unchecked == "unchecked"

\* handleRegister with the other fields filled in: past the emptiness check
\* to const passwordError = validatePassword(password)
PwdValidate ==
  /\ Truthy(pwd)
  /\ pwdResult = Unchecked
  /\ pwdResult' = validatePassword(pwd)
  /\ UNCHANGED pwd
  /\ UNCHANGED notPwd

\* onChangeText={setPassword}: one more character typed
PwdType(c) ==
  /\ Len(pwd) < MaxPwdLen
  /\ pwd' = Append(pwd, c)
  /\ pwdResult' = Unchecked
  /\ UNCHANGED notPwd

\* onChangeText={setPassword}: a whole text pasted
PwdPaste(text) ==
  /\ pwd' = text
  /\ pwdResult' = Unchecked
  /\ UNCHANGED notPwd

(***************************************************************************)
(* Backend responses                                                       *)
(***************************************************************************)
Response(c, j, d) == [code |-> c, json |-> j, detail |-> d]

\* code 0: the transport failed and fetch rejected
Responses == { Response(200, TRUE, ""),
               Response(401, TRUE, "Could not validate credentials"),
               Response(422, TRUE, ""),
               Response(502, FALSE, ""),
               Response(0, FALSE, "") }

NoError == ""

Ok(resp) == resp.code \in 200..299

\* await fetch(...); await response.json();
\* if (!response.ok) throw new Error(data.detail || fallback)
\* (useDetail is FALSE where the code throws the fixed message)
ThrownNever(resp, fallback, useDetail) == NoError

Thrown(resp, fallback, useDetail) ==
  IF resp.code = 0 THEN "Network request failed"
  ELSE IF ~resp.json THEN "JSON Parse error"
  ELSE IF ~Ok(resp)
    THEN (IF useDetail /\ resp.detail # "" THEN resp.detail ELSE fallback)
  ELSE NoError

Handled(c, e) == [code |-> c, ep |-> e]

NoResp == Handled(-1, "none")

Alert(t, m) == [title |-> t, msg |-> m]

NoAlert == Alert("", "")

CatchRequestAgain(ep) ==
  Request(ep, "POST", NoHeader, NoHeader, "none", <<>>)

\* the request a handler's catch block sends for the endpoint that failed:
\* catch (error) { Alert.alert(..., error.message); } sends none
CatchRequest(ep) == NoReq

\* no button of an Alert
NoButton == ""

(***************************************************************************)
(* EmployeeHomeScreen state                                                *)
(***************************************************************************)
Status(k, i, o) == [known |-> k, checked_in |-> i, checked_out |-> o]

NoStatus == Status(FALSE, FALSE, FALSE)

\* bodies of GET /api/employee/status
StatusDatas == { Status(TRUE, FALSE, FALSE), Status(TRUE, TRUE, FALSE),
                 Status(TRUE, TRUE, TRUE) }

\* one running handleCheckIn / handleCheckOut: the await it is suspended at
\* and the permission status it was given
Flow(pc, kind, perm) == [pc |-> pc, kind |-> kind, perm |-> perm]

Outcome(kind, perm, result, err) ==
  [kind |-> kind, perm |-> perm, result |-> result, error |-> err]

NoDone == Outcome("", "", "", NoError)

One(fl) == SetToBag({fl})

CaptureUris == {FileUriSample, DataUriSample}

PermissionMsg == "Location permission is required for attendance"

PositionMsg == "Current location is unavailable"

FailedTitle(kind) ==
  IF kind = "checkIn" THEN "Check-In Failed" ELSE "Check-Out Failed"

Fallback(kind) == IF kind = "checkIn" THEN "Check-in failed" ELSE "Check-out failed"

SubmitRequestSwapped(kind, tok, lat, lon, uri) ==
  IF kind = "checkIn" THEN checkInRequest(tok, lon, lat, uri)
                      ELSE checkOutRequest(tok, lon, lat, uri)

SubmitRequest(kind, tok, lat, lon, uri) ==
  IF kind = "checkIn" THEN checkInRequest(tok, lat, lon, uri)
                      ELSE checkOutRequest(tok, lat, lon, uri)

Min(a, b) == IF a < b THEN a ELSE b

\* location.coords of a resolved getCurrentPositionAsync
Coords(lat, lon) == [latitude |-> lat, longitude |-> lon]

NoFix == Coords(<<>>, <<>>)

Positions == { Coords(Latitude, Longitude),
               Coords(<<"9", ".", "1">>, <<"7", ".", "2">>) }

CleanupKeepsInterval(iv) == iv

\* return () => clearInterval(interval): the timer after the effect's cleanup
Cleanup(iv) == FALSE

HomeMounted == route = "EmployeeTabs"

(***************************************************************************)
(* State of the admin's screens                                            *)
(***************************************************************************)
\* an Alert with buttons: what it asks about
Prompt(kind, id, active) == [kind |-> kind, id |-> id, active |-> active]

NoPrompt == Prompt("none", <<>>, FALSE)

RegForm(i, n, e, p, img) ==
  [employeeId |-> i, name |-> n, email |-> e, password |-> p,
   capturedImage |-> img]

\* useState('') of the fields, useState(null) of capturedImage
EmptyRegForm == RegForm(<<>>, <<>>, <<>>, <<>>, <<>>)

ShiftForm(name, days, isEdit, id) ==
  [shiftName |-> name, selectedDays |-> days, isEdit |-> isEdit, id |-> id]

NoShiftForm == ShiftForm(<<>>, <<>>, FALSE, 0)

\* useState(null) of selectedShift; null and 0 are both falsy
NoSelection == 0

\* useState({}): the settings map, as its key/value pairs
NoSettings == <<>>

(***************************************************************************)
(* LoginScreen.handleLogin / AuthService.login                             *)
(***************************************************************************)
Credentials == {<<>>, <<"x">>}

NavTargetSwapped(role) == IF role = "admin" THEN "EmployeeTabs" ELSE "AdminTabs"

\* if (data.employee.role === 'admin') ... else ...
NavTarget(role) == IF role = "admin" THEN "AdminTabs" ELSE "EmployeeTabs"

HandleLogin(email, password) ==
  /\ route = "Login"
  /\ loginPc = "idle"
  /\ handled' = NoResp
  /\ located' = NoFix
  /\ pressed' = NoButton
  /\ done' = NoDone
  /\ IF ~Truthy(email) \/ ~Truthy(password)
       THEN /\ alert' = Alert("Error", "Please fill in all fields")
            /\ wire' = NoReq
            /\ UNCHANGED loginPc
       ELSE /\ loginPc' = "fetch"
            /\ wire' = loginRequest(email, password)
            /\ alert' = NoAlert
  /\ UNCHANGED <<sessionVars, route, loginData, logoutPc, homeVars>>
  /\ UNCHANGED adminVars
  /\ UNCHANGED notApp

\* the response of POST /api/auth/login; on ok the first setItem
LoginResponse(resp, role) ==
  /\ loginPc = "fetch"
  /\ handled' = Handled(resp.code, "/api/auth/login")
  /\ located' = NoFix
  /\ pressed' = NoButton
  /\ wire' = NoReq
  /\ done' = NoDone
  /\ LET err == Thrown(resp, "Login failed", TRUE) IN
     IF err # NoError
       THEN /\ alert' = Alert("Login Failed", err)
            /\ loginPc' = "idle"
            /\ UNCHANGED <<token, loginData>>
       ELSE /\ token' = setItem("token", "token", token, TokenOf(role))
            /\ loginData' = role
            /\ loginPc' = "setUser"
            /\ alert' = NoAlert
  /\ UNCHANGED <<user, route, logoutPc, homeVars>>
  /\ UNCHANGED adminVars
  /\ UNCHANGED notApp

\* the second setItem, the return of login, and the navigation.replace;
\* EmployeeTabs mounts EmployeeHomeScreen, whose effect calls loadStatus().
\* Handlers of an earlier home screen that are still suspended are not
\* followed into the new session (their awaits never settle).
LoginStoreUser ==
  /\ loginPc = "setUser"
  /\ user' = setItem("user", "user", user,
                    Item(JSONstringify(EmployeeOf(loginData))))
  /\ loginPc' = "idle"
  /\ loginData' = NULL
  /\ route' = NavTarget(loginData)
  /\ handled' = NoResp
  /\ located' = NoFix
  /\ pressed' = NoButton
  /\ alert' = NoAlert
  /\ done' = NoDone
  /\ flows' = EmptyBag
  /\ IF route' = "EmployeeTabs"
       THEN /\ statusReqs' = 1
            /\ wire' = getStatusRequest(getToken)
            /\ interval' = TRUE
       ELSE /\ wire' = NoReq
            /\ UNCHANGED <<statusReqs, interval>>
  /\ UNCHANGED <<status, homeLoading, capturing, processing, shots>>
  /\ UNCHANGED <<token, logoutPc>>
  /\ UNCHANGED adminVars
  /\ UNCHANGED notApp

(***************************************************************************)
(* ProfileScreen.handleLogout / AuthService.logout                         *)
(***************************************************************************)
HandleLogout ==
  /\ route \in {"AdminTabs", "EmployeeTabs"}
  /\ logoutPc = "idle"
  /\ prompt = NoPrompt
  /\ logoutPc' = "prompt"
  /\ alert' = Alert("Logout", "Are you sure you want to logout?")
  /\ wire' = NoReq
  /\ handled' = NoResp
  /\ located' = NoFix
  /\ pressed' = NoButton
  /\ done' = NoDone
  /\ UNCHANGED <<sessionVars, route, loginVars, homeVars>>
  /\ UNCHANGED adminVars
  /\ UNCHANGED notApp

LogoutCancel ==
  /\ logoutPc = "prompt"
  /\ logoutPc' = "idle"
  /\ wire' = NoReq
  /\ handled' = NoResp
  /\ located' = NoFix
  /\ pressed' = "Cancel"
  /\ alert' = NoAlert
  /\ done' = NoDone
  /\ UNCHANGED <<sessionVars, route, loginVars, homeVars>>
  /\ UNCHANGED adminVars
  /\ UNCHANGED notApp

\* onPress of 'Logout': the first removeItem
LogoutConfirm ==
  /\ logoutPc = "prompt"
  /\ logoutPc' = "rmUser"
  /\ token' = removeItem("token", "token", token)
  /\ wire' = NoReq
  /\ handled' = NoResp
  /\ located' = NoFix
  /\ pressed' = "Logout"
  /\ alert' = NoAlert
  /\ done' = NoDone
  /\ UNCHANGED <<user, route, loginVars, homeVars>>
  /\ UNCHANGED adminVars
  /\ UNCHANGED notApp

\* the second removeItem and navigation.replace('Login'); the tabs unmount:
\* the screens' state is gone and the interval is cleared (the requests of
\* the screens are not followed further); handleCheckIn / handleCheckOut
\* invocations already running keep running
LogoutFinish ==
  /\ logoutPc = "rmUser"
  /\ logoutPc' = "idle"
  /\ user' = removeItem("user", "user", user)
  /\ route' = "Login"
  /\ wire' = NoReq
  /\ handled' = NoResp
  /\ located' = NoFix
  /\ pressed' = NoButton
  /\ alert' = NoAlert
  /\ done' = NoDone
  /\ status' = NoStatus
  /\ homeLoading' = TRUE
  /\ capturing' = FALSE
  /\ processing' = FALSE
  /\ shots' = <<>>
  /\ statusReqs' = 0
  /\ interval' = Cleanup(interval)
  /\ adminTab' = "none"
  /\ regForm' = EmptyRegForm
  /\ shiftForm' = NoShiftForm
  /\ selectedShift' = NoSelection
  /\ employees' = <<>>
  /\ shifts' = <<>>
  /\ saving' = FALSE
  /\ prompt' = NoPrompt
  /\ pending' = EmptyBag
  /\ settings' = NoSettings
  /\ UNCHANGED <<token, loginVars, flows>>
  /\ UNCHANGED notApp

(***************************************************************************)
(* EmployeeHomeScreen                                                      *)
(***************************************************************************)
\* setInterval(loadStatus, 30000) fires: loadStatus() up to its fetch
PollTick ==
  /\ interval
  /\ statusReqs < MaxStatus
  /\ statusReqs' = statusReqs + 1
  /\ wire' = getStatusRequest(getToken)
  /\ handled' = NoResp
  /\ located' = NoFix
  /\ pressed' = NoButton
  /\ alert' = NoAlert
  /\ done' = NoDone
  /\ UNCHANGED <<sessionVars, route, loginVars, logoutPc, status, homeLoading,
                 capturing, processing, shots, flows, interval>>
  /\ UNCHANGED adminVars
  /\ UNCHANGED notApp

\* loadStatus() from its fetch on
StatusResponse(resp, data) ==
  /\ HomeMounted
  /\ statusReqs > 0
  /\ statusReqs' = statusReqs - 1
  /\ handled' = Handled(resp.code, "/api/employee/status")
  /\ located' = NoFix
  /\ pressed' = NoButton
  /\ wire' = NoReq
  /\ done' = NoDone
  /\ LET err == Thrown(resp, "Failed to fetch status", FALSE) IN
       /\ alert' = IF err # NoError THEN Alert("Error", err) ELSE NoAlert
       /\ status' = IF err = NoError THEN data ELSE status
  /\ homeLoading' = FALSE
  /\ UNCHANGED <<sessionVars, route, loginVars, logoutPc, capturing, processing,
                 shots, flows, interval>>
  /\ UNCHANGED adminVars
  /\ UNCHANGED notApp

\* onPress={() => setCapturing(true)} of the Check In / Check Out button
PressCheck ==
  /\ HomeMounted
  /\ logoutPc # "prompt"
  /\ ~homeLoading /\ ~capturing /\ ~processing
  /\ ~(status.checked_in /\ status.checked_out)
  /\ capturing' = TRUE
  /\ wire' = NoReq
  /\ handled' = NoResp
  /\ located' = NoFix
  /\ pressed' = NoButton
  /\ alert' = NoAlert
  /\ done' = NoDone
  /\ UNCHANGED <<sessionVars, route, loginVars, logoutPc, status, homeLoading,
                 processing, shots, flows, statusReqs, interval>>
  /\ UNCHANGED adminVars
  /\ UNCHANGED notApp

\* onCancel={() => setCapturing(false)}
CameraCancel ==
  /\ HomeMounted
  /\ logoutPc # "prompt"
  /\ ~homeLoading /\ capturing
  /\ capturing' = FALSE
  /\ wire' = NoReq
  /\ handled' = NoResp
  /\ located' = NoFix
  /\ pressed' = NoButton
  /\ alert' = NoAlert
  /\ done' = NoDone
  /\ UNCHANGED <<sessionVars, route, loginVars, logoutPc, status, homeLoading,
                 processing, shots, flows, statusReqs, interval>>
  /\ UNCHANGED adminVars
  /\ UNCHANGED notApp

\* CameraCapture.takePicture up to its await; onCapture is the prop of the
\* render the press happened in
TakePicture ==
  /\ HomeMounted
  /\ logoutPc # "prompt"
  /\ ~homeLoading /\ capturing
  /\ Len(shots) + BagCardinality(flows) < MaxFlows
  /\ shots' = Append(shots, IF status.checked_in THEN "checkOut" ELSE "checkIn")
  /\ wire' = NoReq
  /\ handled' = NoResp
  /\ located' = NoFix
  /\ pressed' = NoButton
  /\ alert' = NoAlert
  /\ done' = NoDone
  /\ UNCHANGED <<sessionVars, route, loginVars, logoutPc, status, homeLoading,
                 capturing, processing, flows, statusReqs, interval>>
  /\ UNCHANGED adminVars
  /\ UNCHANGED notApp

\* takePictureAsync resolves, onCapture(photo.uri): handleCheckIn or
\* handleCheckOut up to the await of requestForegroundPermissionsAsync
HandleCapture ==
  /\ shots # <<>>
  /\ shots' = Tail(shots)
  /\ flows' = flows (+) One(Flow("perm", Head(shots), ""))
  /\ capturing' = FALSE
  /\ processing' = TRUE
  /\ wire' = NoReq
  /\ handled' = NoResp
  /\ located' = NoFix
  /\ pressed' = NoButton
  /\ alert' = NoAlert
  /\ done' = NoDone
  /\ UNCHANGED <<sessionVars, route, loginVars, logoutPc, status, homeLoading,
                 statusReqs, interval>>
  /\ UNCHANGED adminVars
  /\ UNCHANGED notApp

FinallySkipped(mounted, p) == p

\* finally { setProcessing(false); }: a setter of an unmounted screen does
\* nothing
Finally(mounted, p) == IF mounted THEN FALSE ELSE p

PermissionCheckSkipped(permStatus) == FALSE

\* if (status !== 'granted') throw ...
PermissionRefused(permStatus) == permStatus # "granted"

PermStatuses == {"granted", "denied", "undetermined"}

\* requestForegroundPermissionsAsync resolves; on 'granted' the handler goes
\* on to the await of getCurrentPositionAsync, otherwise to catch and finally
PermissionResult(fl, permStatus) ==
  /\ BagIn(fl, flows)
  /\ fl.pc = "perm"
  /\ wire' = NoReq
  /\ handled' = NoResp
  /\ located' = NoFix
  /\ pressed' = NoButton
  /\ IF PermissionRefused(permStatus)
       THEN /\ flows' = flows (-) One(fl)
            /\ done' = Outcome(fl.kind, permStatus, "failed", PermissionMsg)
            /\ alert' = Alert(FailedTitle(fl.kind), PermissionMsg)
            /\ processing' = Finally(HomeMounted, processing)
       ELSE /\ flows' = (flows (-) One(fl)) (+) One(Flow("pos", fl.kind, permStatus))
            /\ done' = NoDone
            /\ alert' = NoAlert
            /\ UNCHANGED processing
  /\ UNCHANGED <<sessionVars, route, loginVars, logoutPc, status, homeLoading,
                 capturing, shots, statusReqs, interval>>
  /\ UNCHANGED adminVars
  /\ UNCHANGED notApp

\* getCurrentPositionAsync settles; with a position the handler calls
\* ApiService.checkIn / checkOut, which runs up to its fetch.  The image
\* reference handed to onCapture is first read here.
PositionResult(fl, acquired, location, uri) ==
  /\ BagIn(fl, flows)
  /\ fl.pc = "pos"
  /\ handled' = NoResp
  /\ located' = IF acquired THEN location ELSE NoFix
  /\ pressed' = NoButton
  /\ IF acquired
       THEN /\ flows' = (flows (-) One(fl)) (+) One(Flow("submit", fl.kind, fl.perm))
            /\ wire' = SubmitRequest(fl.kind, getToken, location.latitude,
                                     location.longitude, uri)
            /\ done' = NoDone
            /\ alert' = NoAlert
            /\ UNCHANGED processing
       ELSE /\ flows' = flows (-) One(fl)
            /\ wire' = NoReq
            /\ done' = Outcome(fl.kind, fl.perm, "failed", PositionMsg)
            /\ alert' = Alert(FailedTitle(fl.kind), PositionMsg)
            /\ processing' = Finally(HomeMounted, processing)
  /\ UNCHANGED <<sessionVars, route, loginVars, logoutPc, status, homeLoading,
                 capturing, shots, statusReqs, interval>>
  /\ UNCHANGED adminVars
  /\ UNCHANGED notApp

\* the response of the check-in / check-out request: the rest of
\* ApiService.checkIn and of handleCheckIn (Alert, loadStatus(), finally)
SubmitResponse(fl, resp) ==
  /\ BagIn(fl, flows)
  /\ fl.pc = "submit"
  /\ flows' = flows (-) One(fl)
  /\ handled' = Handled(resp.code,
                        SubmitRequest(fl.kind, NULL, <<>>, <<>>, <<>>).ep)
  /\ located' = NoFix
  /\ pressed' = NoButton
  /\ LET err == Thrown(resp, Fallback(fl.kind), TRUE) IN
     IF err = NoError
       THEN /\ done' = Outcome(fl.kind, fl.perm, "success", NoError)
            /\ alert' = Alert("Success", fl.kind)
            /\ statusReqs' = IF HomeMounted THEN Min(MaxStatus, statusReqs + 1)
                                            ELSE statusReqs
            /\ wire' = getStatusRequest(getToken)
       ELSE /\ done' = Outcome(fl.kind, fl.perm, "failed", err)
            /\ alert' = Alert(FailedTitle(fl.kind), err)
            /\ wire' = CatchRequest(handled'.ep)
            /\ UNCHANGED statusReqs
  /\ processing' = Finally(HomeMounted, processing)
  /\ UNCHANGED <<sessionVars, route, loginVars, logoutPc, status, homeLoading,
                 capturing, shots, interval>>
  /\ UNCHANGED adminVars
  /\ UNCHANGED notApp

(***************************************************************************)
(* Paginated list screens: EmployeeHistoryScreen, AdminAttendanceScreen,   *)
(* AdminEmployeesScreen                                                    *)
(***************************************************************************)
Screens == {"history", "attendance", "employees"}

Pagination(k, p, n) == [known |-> k, page |-> p, pages |-> n]

NoPagination == Pagination(FALSE, 0, 0)

\* what a step did: op, the page of the request it issued or answered, and
\* whether the request was issued / the response was ok
Evt(op, p, ok) == [op |-> op, page |-> p, ok |-> ok]

PageRecordsOfFirstPage(p, n) ==
  IF 1 \in 1..n THEN [k \in 1..PageSize |-> k] ELSE <<>>

\* data.records / data.employees of page p while the backend holds n pages
PageRecords(p, n) ==
  IF p \in 1..n THEN [k \in 1..PageSize |-> (p - 1) * PageSize + k] ELSE <<>>

\* loadRecords() sets loading first on the admin attendance screen only
LoadingOnFetch == IF screen = "attendance" THEN TRUE ELSE listLoading

\* the FlatList is rendered
ListVisible ==
  IF screen = "attendance" THEN ~(listLoading /\ page = 1) ELSE ~listLoading

LoadMoreGuardInclusive == pagination.known /\ page <= pagination.pages

\* if (pagination && page < pagination.pages)
LoadMoreGuard == pagination.known /\ page < pagination.pages

\* loadMore / onEndReached; setPage(page + 1) re-renders and the effect on
\* [page] calls loadRecords(), which runs up to its fetch
LoadMore ==
  /\ ListVisible
  /\ IF LoadMoreGuard
       THEN /\ BagCardinality(inflight) < MaxInflight
            /\ page' = page + 1
            /\ inflight' = inflight (+) SetToBag({page + 1})
            /\ listLoading' = LoadingOnFetch
            /\ lastEvt' = Evt("loadMore", page + 1, TRUE)
       ELSE /\ lastEvt' = Evt("loadMore", 0, FALSE)
            /\ UNCHANGED <<page, inflight, listLoading>>
  /\ watch' = "off"
  /\ UNCHANGED <<screen, records, pagination, refreshing, srvPages>>
  /\ UNCHANGED notPager

\* onRefresh: setRefreshing(true); setPage(1); loadRecords() -- the
\* loadRecords of the render the pull happened in, which still reads that
\* render's page; if the page changed, the effect on [page] then calls
\* loadRecords() again
OnRefresh ==
  /\ ListVisible
  /\ ~refreshing
  /\ BagCardinality(inflight) + (IF page # 1 THEN 2 ELSE 1) <= MaxInflight
  /\ refreshing' = TRUE
  /\ page' = 1
  /\ inflight' = (inflight (+) SetToBag({page})) (+)
                   (IF page # 1 THEN SetToBag({1}) ELSE EmptyBag)
  /\ listLoading' = LoadingOnFetch
  /\ lastEvt' = Evt("refresh", page, TRUE)
  /\ watch' = IF inflight = EmptyBag THEN "refresh" ELSE "off"
  /\ UNCHANGED <<screen, records, pagination, srvPages>>
  /\ UNCHANGED notPager

\* loadRecords() / loadEmployees() from its fetch on, for the request of
\* page p
ListResponse(p, ok) ==
  /\ BagIn(p, inflight)
  /\ inflight' = inflight (-) SetToBag({p})
  /\ IF ok
       THEN /\ records' = PageRecords(p, srvPages)
            /\ pagination' = Pagination(TRUE, p, srvPages)
            /\ UNCHANGED watch
       ELSE /\ watch' = "off"
            /\ UNCHANGED <<records, pagination>>
  /\ listLoading' = FALSE
  /\ refreshing' = FALSE
  /\ lastEvt' = Evt("response", p, ok)
  /\ UNCHANGED <<screen, page, srvPages>>
  /\ UNCHANGED notPager

\* the page loadEmployees() asks for: ApiService.getEmployees(page, 50)
ReloadPage(p) == p

\* the onPress of 'Delete' / 'Confirm' of AdminEmployeesScreen after its
\* request has succeeded: loadEmployees() of that render, up to its fetch
Reload ==
  /\ screen = "employees"
  /\ ListVisible
  /\ BagCardinality(inflight) < MaxInflight
  /\ inflight' = inflight (+) SetToBag({ReloadPage(page)})
  /\ lastEvt' = Evt("reload", ReloadPage(page), TRUE)
  /\ watch' = "off"
  /\ UNCHANGED <<screen, page, records, pagination, refreshing, listLoading,
                 srvPages>>
  /\ UNCHANGED notPager

\* records are added to or removed from the backend's list
ServerChange(n) ==
  /\ n # srvPages
  /\ srvPages' = n
  /\ lastEvt' = Evt("server", 0, FALSE)
  /\ watch' = "off"
  /\ UNCHANGED <<screen, page, records, pagination, inflight, refreshing,
                 listLoading>>
  /\ UNCHANGED notPager

(***************************************************************************)
(* The admin's screens.  One screen is followed per session: the admin     *)
(* opens a screen after login and works on it until logout.                *)
(***************************************************************************)
AdminMounted == route = "AdminTabs"

\* an Alert with buttons is on screen: nothing under it can be pressed
Modal == prompt # NoPrompt \/ logoutPc = "prompt"

BoolChars(b) == IF b THEN <<"t","r","u","e">> ELSE <<"f","a","l","s","e">>

getEmployeesRequest(tok) ==
  Request("/api/admin/employees", "GET", Bearer(tok), NoHeader, "none",
          <<TextPart("page", <<"1">>), TextPart("limit", <<"5","0">>)>>)

deleteEmployeeRequest(tok, employeeId) ==
  Request("/api/admin/employees/:id", "DELETE", Bearer(tok), NoHeader, "none",
          <<TextPart(":id", employeeId)>>)

updateEmployeeStatusRequest(tok, employeeId, isActive) ==
  Request("/api/admin/employees/:id/status", "PATCH", Bearer(tok), NoHeader,
          "none",
          <<TextPart(":id", employeeId),
            TextPart("is_active", BoolChars(isActive))>>)

getShiftsRequest(tok) ==
  Request("/api/admin/shifts", "GET", Bearer(tok), NoHeader, "none", <<>>)

deleteShiftRequest(tok, shiftId) ==
  Request("/api/admin/shifts/:id", "DELETE", Bearer(tok), NoHeader, "none",
          <<TextPart(":id", shiftId)>>)

\* Object.keys(shiftData).forEach(key => formData.append(key, ...))
ShiftParts(shiftData) ==
  <<TextPart("shift_name", shiftData.shift_name),
    TextPart("start_time", shiftData.start_time),
    TextPart("end_time", shiftData.end_time),
    TextPart("check_in_start", shiftData.check_in_start),
    TextPart("check_in_end", shiftData.check_in_end),
    TextPart("check_out_start", shiftData.check_out_start),
    TextPart("check_out_end", shiftData.check_out_end),
    TextPart("days_of_week", shiftData.days_of_week)>>

createShiftRequestManualType(tok, shiftData) ==
  Request("/api/admin/shifts", "POST", Bearer(tok), "multipart/form-data",
          "multipart", ShiftParts(shiftData))

createShiftRequest(tok, shiftData) ==
  Request("/api/admin/shifts", "POST", Bearer(tok), NoHeader, "multipart",
          ShiftParts(shiftData))

updateShiftRequest(tok, shiftId, shiftData) ==
  Request("/api/admin/shifts/:id", "PUT", Bearer(tok), NoHeader, "multipart",
          <<TextPart(":id", shiftId)>> \o ShiftParts(shiftData))

assignShiftRequest(tok, employeeId, shiftId, effectiveFrom, effectiveTo) ==
  Request("/api/admin/employees/:id/assign-shift", "POST", Bearer(tok),
          NoHeader, "multipart",
          <<TextPart(":id", employeeId), TextPart("shift_id", shiftId),
            TextPart("effective_from", effectiveFrom)>>
            \o (IF Truthy(effectiveTo)
                  THEN <<TextPart("effective_to", effectiveTo)>> ELSE <<>>))

getSettingsRequest(tok) ==
  Request("/api/admin/settings", "GET", Bearer(tok), NoHeader, "none", <<>>)

\* body: JSON.stringify(settings)
updateSettingsRequest(tok, map) ==
  Request("/api/admin/settings/bulk-update", "POST", Bearer(tok),
          "application/json", "json", map)

\* ---- AdminRegisterScreen ----
GoodRegForm == RegForm(<<"7">>, <<"n">>, <<"e">>, PwdValid1Pass, FileUriSample)

RegForms == { EmptyRegForm, GoodRegForm,
              [GoodRegForm EXCEPT !.employeeId = <<>>],
              [GoodRegForm EXCEPT !.name = <<>>],
              [GoodRegForm EXCEPT !.email = <<>>],
              [GoodRegForm EXCEPT !.password = <<>>],
              [GoodRegForm EXCEPT !.capturedImage = <<>>],
              [GoodRegForm EXCEPT !.capturedImage = DataUriSample],
              [GoodRegForm EXCEPT !.password = PwdAbc],
              [GoodRegForm EXCEPT !.password = PwdAllLowercase1],
              [GoodRegForm EXCEPT !.password = PwdAllUppercase1],
              [GoodRegForm EXCEPT !.password = PwdNoDigitsHere] }

RegisterErrorNoImageCheck(form) ==
  IF \/ ~Truthy(form.employeeId) \/ ~Truthy(form.name) \/ ~Truthy(form.email)
     \/ ~Truthy(form.password)
    THEN Alert("Error", "Please fill all fields and capture face image")
  ELSE IF validatePassword(form.password) # NULL
    THEN Alert("Invalid Password", validatePassword(form.password))
  ELSE NoAlert

\* the two early returns of handleRegister: the Alert shown, or NoAlert
RegisterError(form) ==
  IF \/ ~Truthy(form.employeeId) \/ ~Truthy(form.name) \/ ~Truthy(form.email)
     \/ ~Truthy(form.password) \/ ~Truthy(form.capturedImage)
    THEN Alert("Error", "Please fill all fields and capture face image")
  ELSE IF validatePassword(form.password) # NULL
    THEN Alert("Invalid Password", validatePassword(form.password))
  ELSE NoAlert

\* what a step of an admin screen shows and sends
Step(w, h, a) ==
  /\ wire' = w
  /\ handled' = h
  /\ alert' = a
  /\ done' = NoDone
  /\ located' = NoFix

OtherScreens ==
  /\ UNCHANGED <<sessionVars, route, loginVars, logoutPc, homeVars>>
  /\ UNCHANGED notApp

NotAdmin ==
  /\ UNCHANGED settings
  /\ OtherScreens

\* onChangeText of the fields, handleCapture
RegFill(form) ==
  /\ pressed' = NoButton
  /\ AdminMounted /\ adminTab = "Register" /\ ~Modal
  /\ form # regForm
  /\ regForm' = form
  /\ Step(NoReq, NoResp, NoAlert)
  /\ UNCHANGED <<adminTab, shiftForm, selectedShift, employees, shifts, saving,
                 prompt, pending>>
  /\ NotAdmin

\* handleRegister up to the fetch of ApiService.registerEmployee
HandleRegister ==
  /\ pressed' = NoButton
  /\ AdminMounted /\ adminTab = "Register" /\ ~Modal
  /\ ~saving
  /\ IF RegisterError(regForm) # NoAlert
       THEN /\ Step(NoReq, NoResp, RegisterError(regForm))
            /\ UNCHANGED <<saving, pending>>
       ELSE /\ saving' = TRUE
            /\ pending' = pending (+) One("registerEmployee")
            /\ Step(registerEmployeeRequest(getToken,
                      [employee_id |-> regForm.employeeId,
                       name |-> regForm.name, email |-> regForm.email,
                       password |-> regForm.password,
                       role |-> EmployeeData.role],
                      regForm.capturedImage),
                    NoResp, NoAlert)
  /\ UNCHANGED <<adminTab, regForm, shiftForm, selectedShift, employees, shifts,
                 prompt>>
  /\ NotAdmin

RegisterPrefix == "Failed to register employee: "

\* the rest of ApiService.registerEmployee and of handleRegister
RegisterResponse(resp) ==
  /\ pressed' = NoButton
  /\ BagIn("registerEmployee", pending)
  /\ pending' = pending (-) One("registerEmployee")
  /\ saving' = FALSE
  /\ LET err == Thrown(resp, "Registration failed", TRUE) IN
     IF err # NoError
       THEN /\ Step(CatchRequest("/api/admin/register-employee"),
                    Handled(resp.code, "/api/admin/register-employee"),
                    Alert("Registration Failed", RegisterPrefix \o err))
            /\ UNCHANGED prompt
       ELSE /\ Step(NoReq, Handled(resp.code, "/api/admin/register-employee"),
                    Alert("Success", "Employee registered successfully!"))
            /\ prompt' = Prompt("registered", <<>>, FALSE)
  /\ UNCHANGED <<adminTab, regForm, shiftForm, selectedShift, employees, shifts>>
  /\ NotAdmin

\* onPress of 'OK' of the Success alert
RegisteredOk ==
  /\ pressed' = "OK"
  /\ prompt.kind = "registered"
  /\ prompt' = NoPrompt
  /\ regForm' = EmptyRegForm
  /\ Step(NoReq, NoResp, NoAlert)
  /\ UNCHANGED <<adminTab, shiftForm, selectedShift, employees, shifts, saving,
                 pending>>
  /\ NotAdmin

\* ---- AdminEmployeesScreen ----
EmployeeItem(id, active) == [employee_id |-> id, is_active |-> active]

\* data.employees of GET /api/admin/employees
EmployeeLists == { <<>>, <<EmployeeItem(<<"7">>, TRUE)>>,
                   <<EmployeeItem(<<"7">>, FALSE)>>,
                   <<EmployeeItem(<<"7">>, TRUE), EmployeeItem(<<"8">>, TRUE)>> }

Items(list) == {list[i] : i \in DOMAIN list}

\* loadEmployees() / loadShifts() up to its fetch, at most MaxLoads followed
Load(op) == IF CopiesIn(op, pending) < MaxLoads THEN One(op) ELSE EmptyBag

\* the delete / status requests in flight
Mutations == BagCardinality(pending) - CopiesIn("getEmployees", pending)
               - CopiesIn("getShifts", pending)

\* handleDelete(employee): the Alert with Cancel and Delete
HandleDelete(employee) ==
  /\ pressed' = NoButton
  /\ AdminMounted /\ adminTab = "Employees" /\ ~Modal
  /\ Mutations < MaxMutations
  /\ employee \in Items(employees)
  /\ prompt' = Prompt("deleteEmployee", employee.employee_id, employee.is_active)
  /\ Step(NoReq, NoResp, Alert("Delete Employee", "Are you sure?"))
  /\ UNCHANGED <<adminTab, regForm, shiftForm, selectedShift, employees, shifts,
                 saving, pending>>
  /\ NotAdmin

\* handleToggleStatus(employee): the Alert with Cancel and Confirm
HandleToggleStatus(employee) ==
  /\ pressed' = NoButton
  /\ AdminMounted /\ adminTab = "Employees" /\ ~Modal
  /\ Mutations < MaxMutations
  /\ employee \in Items(employees)
  /\ prompt' = Prompt("updateEmployeeStatus", employee.employee_id,
                      employee.is_active)
  /\ Step(NoReq, NoResp,
          Alert(IF employee.is_active THEN "Deactivate Employee"
                                      ELSE "Activate Employee", "Are you sure?"))
  /\ UNCHANGED <<adminTab, regForm, shiftForm, selectedShift, employees, shifts,
                 saving, pending>>
  /\ NotAdmin

\* the request of the prompt's confirming button
MutationRequest(p, tok) ==
  CASE p.kind = "deleteEmployee" -> deleteEmployeeRequest(tok, p.id)
    [] p.kind = "updateEmployeeStatus" ->
         updateEmployeeStatusRequest(tok, p.id, ~p.active)
    [] p.kind = "deleteShift" -> deleteShiftRequest(tok, p.id)
    [] OTHER -> NoReq

ChoiceRequestAnyButton(p, choice, tok) == MutationRequest(p, tok)

\* the buttons of the prompt: 'Cancel' has no onPress, the other button's
\* onPress calls the ApiService method
ChoiceRequest(p, choice, tok) ==
  IF choice = "confirm" THEN MutationRequest(p, tok) ELSE NoReq

DestructiveKinds == {"deleteEmployee", "updateEmployeeStatus", "deleteShift"}

\* text: of the prompt's buttons
ButtonText(kind, choice) ==
  IF choice = "cancel" THEN "Cancel"
  ELSE IF kind = "updateEmployeeStatus" THEN "Confirm" ELSE "Delete"

\* a button of the Alert of handleDelete / handleToggleStatus is pressed
PromptChoice(choice) ==
  /\ pressed' = ButtonText(prompt.kind, choice)
  /\ prompt.kind \in DestructiveKinds
  /\ prompt' = NoPrompt
  /\ LET req == ChoiceRequest(prompt, choice, getToken) IN
       /\ Step(req, NoResp, NoAlert)
       /\ pending' = IF req = NoReq THEN pending
                                    ELSE pending (+) One(prompt.kind)
  /\ UNCHANGED <<adminTab, regForm, shiftForm, selectedShift, employees, shifts,
                 saving>>
  /\ NotAdmin

MutationEp(op) ==
  CASE op = "deleteEmployee" -> "/api/admin/employees/:id"
    [] op = "updateEmployeeStatus" -> "/api/admin/employees/:id/status"
    [] op = "deleteShift" -> "/api/admin/shifts/:id"
    [] op = "createShift" -> "/api/admin/shifts"
    [] op = "updateShift" -> "/api/admin/shifts/:id"
    [] op = "assignShift" -> "/api/admin/employees/:id/assign-shift"
    [] OTHER -> "/api/admin/register-employee"

\* throw new Error(data.detail || '...') or throw new Error('...')
MutationThrown(op, resp) ==
  CASE op = "deleteEmployee" -> Thrown(resp, "Failed to delete employee", TRUE)
    [] op = "updateEmployeeStatus" ->
         Thrown(resp, "Failed to update employee status", FALSE)
    [] op = "deleteShift" -> Thrown(resp, "Failed to delete shift", TRUE)
    [] op = "createShift" -> Thrown(resp, "Failed to create shift", TRUE)
    [] op = "updateShift" -> Thrown(resp, "Failed to update shift", TRUE)
    [] op = "assignShift" -> Thrown(resp, "Failed to assign shift", TRUE)
    [] OTHER -> Thrown(resp, "Registration failed", TRUE)

\* the rest of the onPress of 'Delete' / 'Confirm': the response of the
\* request, the Alert, and loadEmployees() / loadShifts() up to its fetch
DestructiveResponse(op, resp) ==
  /\ pressed' = NoButton
  /\ op \in DestructiveKinds
  /\ BagIn(op, pending)
  /\ LET err  == MutationThrown(op, resp)
         load == IF op = "deleteShift" THEN "getShifts" ELSE "getEmployees"
     IN
     IF err # NoError
       THEN /\ Step(CatchRequest(MutationEp(op)),
                    Handled(resp.code, MutationEp(op)),
                    Alert("Error", err))
            /\ pending' = pending (-) One(op)
       ELSE /\ Step(IF op = "deleteShift" THEN getShiftsRequest(getToken)
                                          ELSE getEmployeesRequest(getToken),
                    Handled(resp.code, MutationEp(op)),
                    Alert("Success", op))
            /\ pending' = (pending (-) One(op)) (+) Load(load)
  /\ UNCHANGED <<adminTab, regForm, shiftForm, selectedShift, employees, shifts,
                 saving, prompt>>
  /\ NotAdmin

\* loadEmployees() from its fetch on
EmployeesResponse(resp, list) ==
  /\ pressed' = NoButton
  /\ BagIn("getEmployees", pending)
  /\ pending' = pending (-) One("getEmployees")
  /\ LET err == Thrown(resp, "Failed to fetch employees", FALSE) IN
       /\ Step(NoReq, Handled(resp.code, "/api/admin/employees"),
               IF err # NoError THEN Alert("Error", err) ELSE NoAlert)
       /\ employees' = IF err = NoError THEN list ELSE employees
  /\ UNCHANGED <<adminTab, regForm, shiftForm, selectedShift, shifts, saving,
                 prompt>>
  /\ NotAdmin

\* ---- AdminShiftsScreen ----
DigitSeq == <<"0","1","2","3","4","5","6","7","8","9">>

\* a small number as FormData and template literals write it
NumChars(n) == <<DigitSeq[n + 1]>>

ShiftItem(id, name, days) == [id |-> id, shift_name |-> name,
                              days_of_week |-> days]

ShiftIds == {1}

\* data.shifts of GET /api/admin/shifts
ShiftLists == { <<>>, <<ShiftItem(1, <<"S">>, <<"Mon">>)>> }

\* handleDelete(shift): the Alert with Cancel and Delete
HandleDeleteShift(shift) ==
  /\ pressed' = NoButton
  /\ AdminMounted /\ adminTab = "Shifts" /\ ~Modal
  /\ Mutations < MaxMutations
  /\ shift \in Items(shifts)
  /\ prompt' = Prompt("deleteShift", NumChars(shift.id), FALSE)
  /\ Step(NoReq, NoResp, Alert("Delete Shift", "Delete?"))
  /\ UNCHANGED <<adminTab, regForm, shiftForm, selectedShift, employees, shifts,
                 saving, pending>>
  /\ NotAdmin

\* loadShifts() from its fetch on
ShiftsResponse(resp, list) ==
  /\ pressed' = NoButton
  /\ BagIn("getShifts", pending)
  /\ pending' = pending (-) One("getShifts")
  /\ LET err == Thrown(resp, "Failed to fetch shifts", FALSE) IN
       /\ Step(NoReq, Handled(resp.code, "/api/admin/shifts"),
               IF err # NoError THEN Alert("Error", err) ELSE NoAlert)
       /\ shifts' = IF err = NoError THEN list ELSE shifts
  /\ UNCHANGED <<adminTab, regForm, shiftForm, selectedShift, employees, saving,
                 prompt>>
  /\ NotAdmin

\* ---- ShiftFormScreen ----
Weekdays == <<"Mon", "Tue", "Wed", "Thu", "Fri">>

\* the useState initial values, shift being route.params?.shift
NewShiftForm == ShiftForm(<<>>, Weekdays, FALSE, 0)

EditShiftForm(shift) ==
  ShiftForm(shift.shift_name, shift.days_of_week, TRUE, shift.id)

ShiftNames == {<<>>, <<"S">>}

\* the days the admin toggles
ToggleDays == {"Mon", "Tue", "Wed"}

Includes(seq, x) == \E i \in DOMAIN seq : seq[i] = x

RECURSIVE Filter(_, _)
Filter(seq, x) ==
  IF seq = <<>> THEN <<>>
  ELSE (IF Head(seq) = x THEN <<>> ELSE <<Head(seq)>>) \o Filter(Tail(seq), x)

\* selectedDays.join(',')
RECURSIVE Join(_)
Join(seq) ==
  IF seq = <<>> THEN <<>>
  ELSE IF Len(seq) = 1 THEN <<Head(seq)>>
  ELSE <<Head(seq), ",">> \o Join(Tail(seq))

ShiftData(form) ==
  [shift_name |-> form.shiftName,
   start_time |-> <<"0","8",":","0","0">>,
   end_time |-> <<"1","6",":","0","0">>,
   check_in_start |-> <<"0","7",":","0","0">>,
   check_in_end |-> <<"0","8",":","3","0">>,
   check_out_start |-> <<"1","5",":","3","0">>,
   check_out_end |-> <<"1","7",":","0","0">>,
   days_of_week |-> Join(form.selectedDays)]

\* onChangeText={setShiftName}
SetShiftName(name) ==
  /\ pressed' = NoButton
  /\ AdminMounted /\ adminTab = "Edit" /\ ~Modal
  /\ name # shiftForm.shiftName
  /\ shiftForm' = [shiftForm EXCEPT !.shiftName = name]
  /\ Step(NoReq, NoResp, NoAlert)
  /\ UNCHANGED <<adminTab, regForm, selectedShift, employees, shifts, saving,
                 prompt, pending>>
  /\ NotAdmin

ToggleDay(day) ==
  /\ pressed' = NoButton
  /\ AdminMounted /\ adminTab = "Edit" /\ ~Modal
  /\ shiftForm' = [shiftForm EXCEPT !.selectedDays =
                     IF Includes(shiftForm.selectedDays, day)
                       THEN Filter(shiftForm.selectedDays, day)
                       ELSE Append(shiftForm.selectedDays, day)]
  /\ Step(NoReq, NoResp, NoAlert)
  /\ UNCHANGED <<adminTab, regForm, selectedShift, employees, shifts, saving,
                 prompt, pending>>
  /\ NotAdmin

\* if (!shiftName || selectedDays.length === 0)
SaveInvalid(form) == ~Truthy(form.shiftName) \/ Len(form.selectedDays) = 0

\* handleSave up to the fetch of ApiService.updateShift / createShift
HandleSave ==
  /\ pressed' = NoButton
  /\ AdminMounted /\ adminTab = "Edit" /\ ~Modal
  /\ ~saving
  /\ IF SaveInvalid(shiftForm)
       THEN /\ Step(NoReq, NoResp,
                    Alert("Error", "Please fill all required fields"))
            /\ UNCHANGED <<saving, pending>>
       ELSE /\ saving' = TRUE
            /\ pending' = pending (+)
                 One(IF shiftForm.isEdit THEN "updateShift" ELSE "createShift")
            /\ Step(IF shiftForm.isEdit
                      THEN updateShiftRequest(getToken, NumChars(shiftForm.id),
                                              ShiftData(shiftForm))
                      ELSE createShiftRequest(getToken, ShiftData(shiftForm)),
                    NoResp, NoAlert)
  /\ UNCHANGED <<adminTab, regForm, shiftForm, selectedShift, employees, shifts,
                 prompt>>
  /\ NotAdmin

\* the rest of handleSave: on success the Alert and navigation.goBack()
SaveResponse(op, resp) ==
  /\ pressed' = NoButton
  /\ op \in {"createShift", "updateShift"}
  /\ BagIn(op, pending)
  /\ pending' = pending (-) One(op)
  /\ saving' = FALSE
  /\ LET err == MutationThrown(op, resp) IN
     IF err # NoError
       THEN /\ Step(CatchRequest(MutationEp(op)),
                    Handled(resp.code, MutationEp(op)),
                    Alert("Error", err))
            /\ UNCHANGED adminTab
       ELSE /\ Step(NoReq, Handled(resp.code, MutationEp(op)),
                    Alert("Success", op))
            /\ adminTab' = "left"
  /\ UNCHANGED <<regForm, shiftForm, selectedShift, employees, shifts, prompt>>
  /\ NotAdmin

\* ---- AssignShiftScreen, from the end of loadData on ----
AssignEmployee == EmployeeItem(<<"7">>, TRUE)

EffectiveFrom == <<"2","0","2","5","-","0","1","-","0","1">>

\* onPress={() => setSelectedShift(item.id)}
SelectShift(id) ==
  /\ pressed' = NoButton
  /\ AdminMounted /\ adminTab = "Assign" /\ ~Modal
  /\ id # selectedShift
  /\ selectedShift' = id
  /\ Step(NoReq, NoResp, NoAlert)
  /\ UNCHANGED <<adminTab, regForm, shiftForm, employees, shifts, saving,
                 prompt, pending>>
  /\ NotAdmin

\* if (!selectedShift)
AssignInvalid(sel) == sel = NoSelection

\* handleAssign up to the fetch of ApiService.assignShift
HandleAssign ==
  /\ pressed' = NoButton
  /\ AdminMounted /\ adminTab = "Assign" /\ ~Modal
  /\ ~saving
  /\ IF AssignInvalid(selectedShift)
       THEN /\ Step(NoReq, NoResp, Alert("Error", "Please select a shift"))
            /\ UNCHANGED <<saving, pending>>
       ELSE /\ saving' = TRUE
            /\ pending' = pending (+) One("assignShift")
            /\ Step(assignShiftRequest(getToken, AssignEmployee.employee_id,
                                       NumChars(selectedShift), EffectiveFrom,
                                       <<>>),
                    NoResp, NoAlert)
  /\ UNCHANGED <<adminTab, regForm, shiftForm, selectedShift, employees, shifts,
                 prompt>>
  /\ NotAdmin

\* the rest of handleAssign
AssignResponse(resp) ==
  /\ pressed' = NoButton
  /\ BagIn("assignShift", pending)
  /\ pending' = pending (-) One("assignShift")
  /\ saving' = FALSE
  /\ LET err == MutationThrown("assignShift", resp) IN
     IF err # NoError
       THEN /\ Step(CatchRequest(MutationEp("assignShift")),
                    Handled(resp.code, MutationEp("assignShift")),
                    Alert("Error", err))
            /\ UNCHANGED prompt
       ELSE /\ Step(NoReq, Handled(resp.code, MutationEp("assignShift")),
                    Alert("Success", "Shift assigned successfully"))
            /\ prompt' = Prompt("assigned", <<>>, FALSE)
  /\ UNCHANGED <<adminTab, regForm, shiftForm, selectedShift, employees, shifts>>
  /\ NotAdmin

\* onPress of 'OK' of the Success alert: navigation.goBack()
AssignedOk ==
  /\ pressed' = "OK"
  /\ prompt.kind = "assigned"
  /\ prompt' = NoPrompt
  /\ adminTab' = "left"
  /\ Step(NoReq, NoResp, NoAlert)
  /\ UNCHANGED <<regForm, shiftForm, selectedShift, employees, shifts, saving,
                 pending>>
  /\ NotAdmin

\* ---- the tab bar ----
\* ---- AdminSettingsScreen ----
\* data.settings of GET /api/admin/settings as the map loadSettings builds
SettingsMap == <<TextPart("late_threshold", <<"1","5">>)>>

\* loadSettings() from its fetch on
SettingsResponse(resp) ==
  /\ pressed' = NoButton
  /\ BagIn("getSettings", pending)
  /\ pending' = pending (-) One("getSettings")
  /\ LET err == Thrown(resp, "Failed to fetch settings", FALSE) IN
       /\ Step(NoReq, Handled(resp.code, "/api/admin/settings"),
               IF err # NoError THEN Alert("Error", err) ELSE NoAlert)
       /\ settings' = IF err = NoError THEN SettingsMap ELSE settings
  /\ UNCHANGED <<adminTab, regForm, shiftForm, selectedShift, employees, shifts,
                 saving, prompt>>
  /\ OtherScreens

\* handleSave of AdminSettingsScreen up to its fetch; the button is rendered
\* once loading is false and is disabled while saving
HandleSaveSettings ==
  /\ pressed' = NoButton
  /\ AdminMounted /\ adminTab = "Settings" /\ ~Modal
  /\ ~BagIn("getSettings", pending)
  /\ ~saving
  /\ saving' = TRUE
  /\ pending' = pending (+) One("updateSettings")
  /\ Step(updateSettingsRequest(getToken, settings), NoResp, NoAlert)
  /\ UNCHANGED <<adminTab, regForm, shiftForm, selectedShift, employees, shifts,
                 prompt>>
  /\ NotAdmin

\* the rest of handleSave of AdminSettingsScreen
SaveSettingsResponse(resp) ==
  /\ pressed' = NoButton
  /\ BagIn("updateSettings", pending)
  /\ pending' = pending (-) One("updateSettings")
  /\ saving' = FALSE
  /\ LET err == Thrown(resp, "Failed to update settings", TRUE) IN
     IF err # NoError
       THEN Step(CatchRequest("/api/admin/settings/bulk-update"),
                 Handled(resp.code, "/api/admin/settings/bulk-update"),
                 Alert("Error", err))
       ELSE Step(NoReq, Handled(resp.code, "/api/admin/settings/bulk-update"),
                 Alert("Success", "Settings updated successfully!"))
  /\ UNCHANGED <<adminTab, regForm, shiftForm, selectedShift, employees, shifts,
                 prompt>>
  /\ NotAdmin

AdminTabNames == {"Register", "Employees", "Shifts", "Edit", "Assign",
                  "Settings"}

\* the admin opens a screen: it mounts, and the effect of AdminEmployeesScreen
\* / AdminShiftsScreen calls loadEmployees() / loadShifts()
OpenTab(tab, shiftParam, current) ==
  /\ pressed' = NoButton
  /\ AdminMounted /\ adminTab = "none" /\ ~Modal
  /\ adminTab' = tab
  /\ shiftForm' = IF tab = "Edit" THEN shiftParam ELSE shiftForm
  /\ selectedShift' = IF tab = "Assign" THEN current ELSE selectedShift
  /\ pending' = CASE tab = "Employees" -> One("getEmployees")
                  [] tab = "Shifts" -> One("getShifts")
                  [] tab = "Settings" -> One("getSettings")
                  [] OTHER -> EmptyBag
  /\ Step(CASE tab = "Employees" -> getEmployeesRequest(getToken)
            [] tab = "Shifts" -> getShiftsRequest(getToken)
            [] tab = "Settings" -> getSettingsRequest(getToken)
            [] OTHER -> NoReq,
          NoResp, NoAlert)
  /\ UNCHANGED <<regForm, employees, shifts, saving, prompt>>
  /\ NotAdmin

IdleAdmin ==
  /\ adminTab = "none" /\ regForm = EmptyRegForm /\ shiftForm = NoShiftForm
  /\ selectedShift = NoSelection /\ employees = <<>> /\ shifts = <<>>
  /\ saving = FALSE /\ prompt = NoPrompt /\ pending = EmptyBag
  /\ settings = NoSettings

(***************************************************************************)
(* AuthService: login, logout, getToken and getUser called one after the   *)
(* other on any content of the store                                       *)
(***************************************************************************)
LoginData(tok, emp) == [token |-> tok, employee |-> emp]

NoData == LoginData(NULL, NullEmployee)

EmployeeNames == { <<"n">>, <<Quote>>, <<Backslash>>, <<"a", Quote, "}">>,
                   <<Backslash, Quote>> }

Employees == { Employee(n, RoleChars(r)) : n \in EmployeeNames, r \in Roles }

\* what a call returned: the token of getToken, the employee of getUser and
\* of login's data
Got(call, threw, tok, emp) ==
  [call |-> call, threw |-> threw, token |-> tok, employee |-> emp]

NoGot == Got("none", FALSE, NULL, NullEmployee)

\* login whose response is ok, up to the first setItem
AuthLoginStart(data) ==
  /\ authPc = "idle"
  /\ authPc' = "setUser"
  /\ authData' = data
  /\ token' = setItem("token", "token", token, data.token)
  /\ got' = NoGot
  /\ UNCHANGED user
  /\ UNCHANGED notAuth

\* the second setItem and return data
AuthLoginReturn ==
  /\ authPc = "setUser"
  /\ authPc' = "idle"
  /\ user' = setItem("user", "user", user,
                    Item(JSONstringify(authData.employee)))
  /\ got' = Got("login", FALSE, authData.token, authData.employee)
  /\ authData' = NoData
  /\ UNCHANGED token
  /\ UNCHANGED notAuth

\* login whose response is not ok or not JSON, or whose fetch rejects
AuthLoginThrows(resp) ==
  /\ authPc = "idle"
  /\ Thrown(resp, "Login failed", TRUE) # NoError
  /\ got' = Got("login", TRUE, NULL, NullEmployee)
  /\ UNCHANGED <<token, user, authPc, authData>>
  /\ UNCHANGED notAuth

\* logout up to the first removeItem
AuthLogoutStart ==
  /\ authPc = "idle"
  /\ authPc' = "rmUser"
  /\ token' = removeItem("token", "token", token)
  /\ user' = removeItem("token", "user", user)
  /\ got' = NoGot
  /\ UNCHANGED authData
  /\ UNCHANGED notAuth

\* the second removeItem and the return of logout
AuthLogoutReturn ==
  /\ authPc = "rmUser"
  /\ authPc' = "idle"
  /\ token' = removeItem("user", "token", token)
  /\ user' = removeItem("user", "user", user)
  /\ got' = Got("logout", FALSE, NULL, NullEmployee)
  /\ UNCHANGED authData
  /\ UNCHANGED notAuth

AuthGetToken ==
  /\ authPc = "idle"
  /\ got' = Got("getToken", FALSE, getToken, NullEmployee)
  /\ UNCHANGED <<token, user, authPc, authData>>
  /\ UNCHANGED notAuth

AuthGetUser ==
  /\ authPc = "idle"
  /\ got' = Got("getUser", getUser = SyntaxError, NULL, getUser)
  /\ UNCHANGED <<token, user, authPc, authData>>
  /\ UNCHANGED notAuth

(***************************************************************************)
(* The application                                                         *)
(***************************************************************************)
\* ---- AdminAttendanceScreen: the filter ----
Today == "today"

Dates == {Today, "2024-01-15"}

EmployeeIdFilters == {<<>>, <<"7">>}

\* the query string of ApiService.getAttendance(date, employeeId, page, 50):
\* employee_id is sent only when employeeIdFilter || null is truthy
getAttendanceQuery(date, employeeId, p) ==
  [page |-> p, date |-> date,
   employee_id |-> IF Truthy(employeeId) THEN employeeId ELSE <<>>]

NoQuery == getAttendanceQuery("", <<>>, 0)

\* loadRecords() of the render whose state is (date, filter, p)
LoadRecords(date, filter, p) == SetToBag({getAttendanceQuery(date, filter, p)})

\* the effect on [selectedDate, page]: loadRecords() of the new render when
\* one of the two has changed
Effect(changed, date, filter, p) ==
  IF changed THEN LoadRecords(date, filter, p) ELSE EmptyBag

Quiet == queries = EmptyBag

\* onChangeText={setEmployeeIdFilter} of the filter modal
SetEmployeeIdFilter(v) ==
  /\ v # employeeIdFilter
  /\ employeeIdFilter' = v
  /\ filterWatch' = "off"
  /\ UNCHANGED <<selectedDate, attPage, queries, shown>>
  /\ UNCHANGED notFilter

\* onDateChange={setSelectedDate}
DateChange(d) ==
  /\ d # selectedDate
  /\ BagCardinality(queries) < MaxQueries
  /\ selectedDate' = d
  /\ queries' = queries (+) Effect(TRUE, d, employeeIdFilter, attPage)
  /\ filterWatch' = IF Quiet THEN "filter" ELSE "off"
  /\ UNCHANGED <<employeeIdFilter, attPage, shown>>
  /\ UNCHANGED notFilter

\* applyFilter: setPage(1); loadRecords() of the render of the press; then
\* the effect of the new render
ApplyFilter ==
  /\ BagCardinality(queries) + 2 <= MaxQueries
  /\ attPage' = 1
  /\ queries' = (queries (+) LoadRecords(selectedDate, employeeIdFilter, attPage))
                  (+) Effect(attPage # 1, selectedDate, employeeIdFilter, 1)
  /\ filterWatch' = IF Quiet THEN "filter" ELSE "off"
  /\ UNCHANGED <<employeeIdFilter, selectedDate, shown>>
  /\ UNCHANGED notFilter

\* clearFilter: setEmployeeIdFilter(''); setSelectedDate(today); setPage(1);
\* loadRecords() of the render of the press; then the effect of the new render
ClearFilter ==
  /\ BagCardinality(queries) + 2 <= MaxQueries
  /\ employeeIdFilter' = <<>>
  /\ selectedDate' = Today
  /\ attPage' = 1
  /\ queries' = (queries (+) LoadRecords(selectedDate, employeeIdFilter, attPage))
                  (+) Effect(attPage # 1 \/ selectedDate # Today, Today, <<>>, 1)
  /\ filterWatch' = IF Quiet THEN "filter" ELSE "off"
  /\ UNCHANGED shown
  /\ UNCHANGED notFilter

\* onEndReached of the attendance list
AttLoadMore ==
  /\ shown # NoQuery
  /\ attPage < AttPages
  /\ BagCardinality(queries) < MaxQueries
  /\ attPage' = attPage + 1
  /\ queries' = queries (+) Effect(TRUE, selectedDate, employeeIdFilter,
                                   attPage + 1)
  /\ filterWatch' = "off"
  /\ UNCHANGED <<employeeIdFilter, selectedDate, shown>>
  /\ UNCHANGED notFilter

\* loadRecords() from its fetch on, for the request q
QueryResponse(q, ok) ==
  /\ BagIn(q, queries)
  /\ queries' = queries (-) SetToBag({q})
  /\ IF ok THEN /\ shown' = q
                /\ UNCHANGED filterWatch
           ELSE /\ filterWatch' = "off"
                /\ UNCHANGED shown
  /\ UNCHANGED <<employeeIdFilter, selectedDate, attPage>>
  /\ UNCHANGED notFilter

IdleFilter == /\ employeeIdFilter = <<>> /\ selectedDate = Today /\ attPage = 1
              /\ queries = EmptyBag /\ shown = NoQuery /\ filterWatch = "off"

IdleEnc   == encOp = "checkIn" /\ encUri = <<>> /\ encDone = TRUE
IdlePager == /\ screen = "none" /\ page = 1 /\ records = <<>>
             /\ pagination = NoPagination
             /\ inflight = EmptyBag /\ refreshing = FALSE /\ listLoading = TRUE
             /\ srvPages = 0 /\ lastEvt = Evt("none", 0, FALSE)
             /\ watch = "off"
IdlePwd   == pwd = <<>> /\ pwdResult = Unchecked
IdleAuth  == authPc = "idle" /\ authData = NoData /\ got = NoGot
IdleApp   == /\ user = NoItem /\ route = "Login"
             /\ loginPc = "idle" /\ loginData = NULL /\ logoutPc = "idle"
             /\ status = NoStatus /\ homeLoading = TRUE /\ capturing = FALSE
             /\ processing = FALSE /\ shots = <<>>
             /\ flows = EmptyBag
             /\ statusReqs = 0 /\ interval = FALSE
             /\ wire = NoReq /\ handled = NoResp /\ alert = NoAlert
             /\ done = NoDone /\ located = NoFix /\ pressed = NoButton
             /\ IdleAdmin

\* the app starts on the Login screen; AsyncStorage holds what an earlier run
\* left in it
Init ==
  /\ \E r \in Roles \cup {NULL} :
       /\ user = IF r = NULL THEN NoItem
                             ELSE Item(JSONstringify(EmployeeOf(r)))
       /\ token = IF r = NULL THEN NULL ELSE TokenOf(r)
  /\ route = "Login"
  /\ loginPc = "idle" /\ loginData = NULL /\ logoutPc = "idle"
  /\ status = NoStatus /\ homeLoading = TRUE /\ capturing = FALSE
  /\ processing = FALSE /\ shots = <<>>
  /\ flows = EmptyBag
  /\ statusReqs = 0 /\ interval = FALSE
  /\ wire = NoReq /\ handled = NoResp /\ alert = NoAlert /\ done = NoDone
  /\ located = NoFix /\ pressed = NoButton
  /\ IdleAdmin
  /\ IdleEnc /\ IdlePager /\ IdlePwd /\ IdleAuth
  /\ IdleFilter

FlowsAt(pc) == {fl \in BagToSet(flows) : fl.pc = pc}

Next ==
  \/ \E e \in Credentials, p \in Credentials : HandleLogin(e, p)
  \/ \E resp \in Responses, r \in Roles : LoginResponse(resp, r)
  \/ LoginStoreUser
  \/ HandleLogout
  \/ LogoutCancel
  \/ LogoutConfirm
  \/ LogoutFinish
  \/ PollTick
  \/ \E resp \in Responses, data \in StatusDatas : StatusResponse(resp, data)
  \/ PressCheck
  \/ CameraCancel
  \/ TakePicture
  \/ HandleCapture
  \/ \E fl \in FlowsAt("perm"), ps \in PermStatuses : PermissionResult(fl, ps)
  \/ \E fl \in FlowsAt("pos"), acquired \in BOOLEAN, location \in Positions,
          uri \in CaptureUris :
       PositionResult(fl, acquired, location, uri)
  \/ \E fl \in FlowsAt("submit"), resp \in Responses : SubmitResponse(fl, resp)
  \/ \E tab \in AdminTabNames, current \in ShiftIds \cup {NoSelection},
          shiftParam \in {NewShiftForm} \cup
                          {EditShiftForm(l[1]) : l \in ShiftLists \ {<<>>}} :
       OpenTab(tab, shiftParam, current)
  \/ \E form \in RegForms : RegFill(form)
  \/ HandleRegister
  \/ \E resp \in Responses : RegisterResponse(resp)
  \/ RegisteredOk
  \/ \E employee \in Items(employees) : HandleDelete(employee)
  \/ \E employee \in Items(employees) : HandleToggleStatus(employee)
  \/ \E choice \in {"cancel", "confirm"} : PromptChoice(choice)
  \/ \E op \in DestructiveKinds, resp \in Responses :
       DestructiveResponse(op, resp)
  \/ \E resp \in Responses, list \in EmployeeLists :
       EmployeesResponse(resp, list)
  \/ \E shift \in Items(shifts) : HandleDeleteShift(shift)
  \/ \E resp \in Responses, list \in ShiftLists : ShiftsResponse(resp, list)
  \/ \E name \in ShiftNames : SetShiftName(name)
  \/ \E day \in ToggleDays : ToggleDay(day)
  \/ HandleSave
  \/ \E op \in {"createShift", "updateShift"}, resp \in Responses :
       SaveResponse(op, resp)
  \/ \E id \in ShiftIds \cup {NoSelection} : SelectShift(id)
  \/ HandleAssign
  \/ \E resp \in Responses : AssignResponse(resp)
  \/ AssignedOk
  \/ \E resp \in Responses : SettingsResponse(resp)
  \/ HandleSaveSettings
  \/ \E resp \in Responses : SaveSettingsResponse(resp)

Spec == Init /\ [][Next]_vars

(***************************************************************************)
(* The encoder and the password rule on their own                          *)
(***************************************************************************)
InitEnc ==
  /\ IdleApp /\ IdlePager /\ IdlePwd /\ IdleAuth
  /\ IdleFilter
  /\ token \in Tokens \cup {NULL}
  /\ encOp \in ImageOps
  /\ encUri \in UriSamples
  /\ encDone = FALSE

NextEnc == EncSubmit \/ EncNext

SpecEnc == InitEnc /\ [][NextEnc]_vars

InitPwd ==
  /\ IdleApp /\ IdleEnc /\ IdlePager /\ IdlePwd /\ IdleAuth
  /\ IdleFilter
  /\ token = NULL

NextPwd ==
  \/ PwdValidate
  \/ \E c \in PwdAlphabet : PwdType(c)
  \/ \E text \in PwdExamples : PwdPaste(text)

SpecPwd == InitPwd /\ [][NextPwd]_vars

\* the store holds what earlier runs left in it, an interrupted login or
\* logout included
InitAuth ==
  /\ IdleEnc /\ IdlePager /\ IdlePwd /\ IdleAuth
  /\ IdleFilter
  /\ token \in Tokens \cup {NULL}
  /\ user \in {Item(JSONstringify(e)) : e \in Employees} \cup {NoItem}
  /\ route = "Login"
  /\ loginPc = "idle" /\ loginData = NULL /\ logoutPc = "idle"
  /\ status = NoStatus /\ homeLoading = TRUE /\ capturing = FALSE
  /\ processing = FALSE /\ shots = <<>>
  /\ flows = EmptyBag
  /\ statusReqs = 0 /\ interval = FALSE
  /\ wire = NoReq /\ handled = NoResp /\ alert = NoAlert /\ done = NoDone
  /\ located = NoFix /\ pressed = NoButton
  /\ IdleAdmin

NextAuth ==
  \/ \E tok \in Tokens, emp \in Employees : AuthLoginStart(LoginData(tok, emp))
  \/ AuthLoginReturn
  \/ \E resp \in Responses : AuthLoginThrows(resp)
  \/ AuthLogoutStart
  \/ AuthLogoutReturn
  \/ AuthGetToken
  \/ AuthGetUser

SpecAuth == InitAuth /\ [][NextAuth]_vars

\* The employee's screens alone, with a user who presses the shutter for one
\* attempt at a time, and with every awaited step of handleCheckIn /
\* handleCheckOut (permission, position, request) completing or failing
NextLive ==
  \/ \E e \in Credentials, p \in Credentials : HandleLogin(e, p)
  \/ \E resp \in Responses, r \in Roles : LoginResponse(resp, r)
  \/ LoginStoreUser
  \/ HandleLogout
  \/ LogoutCancel
  \/ LogoutConfirm
  \/ LogoutFinish
  \/ PollTick
  \/ \E resp \in Responses, data \in StatusDatas : StatusResponse(resp, data)
  \/ PressCheck
  \/ CameraCancel
  \/ flows = EmptyBag /\ shots = <<>> /\ TakePicture
  \/ HandleCapture
  \/ \E fl \in FlowsAt("perm"), ps \in PermStatuses : PermissionResult(fl, ps)
  \/ \E fl \in FlowsAt("pos"), acquired \in BOOLEAN, location \in Positions,
          uri \in CaptureUris :
       PositionResult(fl, acquired, location, uri)
  \/ \E fl \in FlowsAt("submit"), resp \in Responses : SubmitResponse(fl, resp)

SpecLive ==
  /\ Init
  /\ [][NextLive]_vars
  /\ WF_vars(\E fl \in FlowsAt("perm"), ps \in PermStatuses :
               PermissionResult(fl, ps))
  /\ WF_vars(\E fl \in FlowsAt("pos"), acquired \in BOOLEAN,
                location \in Positions, uri \in CaptureUris :
               PositionResult(fl, acquired, location, uri))
  /\ WF_vars(\E fl \in FlowsAt("submit"), resp \in Responses :
               SubmitResponse(fl, resp))

\* AdminAttendanceScreen has just mounted: its effect has called
\* loadRecords()
InitFilter ==
  /\ IdleApp /\ IdleEnc /\ IdlePager /\ IdlePwd /\ IdleAuth
  /\ token \in Tokens
  /\ employeeIdFilter = <<>>
  /\ selectedDate = Today
  /\ attPage = 1
  /\ queries = LoadRecords(Today, <<>>, 1)
  /\ shown = NoQuery
  /\ filterWatch = "off"

NextFilter ==
  \/ \E v \in EmployeeIdFilters : SetEmployeeIdFilter(v)
  \/ \E d \in Dates : DateChange(d)
  \/ ApplyFilter
  \/ ClearFilter
  \/ AttLoadMore
  \/ \E q \in BagToSet(queries), ok \in BOOLEAN : QueryResponse(q, ok)

SpecFilter == InitFilter /\ [][NextFilter]_vars

\* a list screen has just mounted: its effect has called loadRecords()
InitPager ==
  /\ IdleApp /\ IdleEnc /\ IdlePwd /\ IdleAuth
  /\ IdleFilter
  /\ token \in Tokens
  /\ screen \in Screens
  /\ page = 1
  /\ records = <<>>
  /\ pagination = NoPagination
  /\ refreshing = FALSE
  /\ listLoading = TRUE
  /\ inflight = SetToBag({1})
  /\ srvPages \in 0..MaxPages
  /\ lastEvt = Evt("mount", 1, TRUE)
  /\ watch = "off"

NextPager ==
  \/ LoadMore
  \/ OnRefresh
  \/ Reload
  \/ \E p \in BagToSet(inflight), ok \in BOOLEAN : ListResponse(p, ok)
  \/ \E n \in 0..MaxPages : ServerChange(n)

SpecPager == InitPager /\ [][NextPager]_vars

(***************************************************************************)
(* Properties                                                              *)
(***************************************************************************)
LoginEp == "/api/auth/login"

PartsNamed(req, n) == {i \in DOMAIN req.parts : req.parts[i].name = n}

HasDataImagePrefix(uri) ==
  /\ Len(uri) >= 11
  /\ <<uri[1], uri[2], uri[3], uri[4], uri[5]>> = <<"d","a","t","a",":">>
  /\ <<uri[6], uri[7], uri[8], uri[9], uri[10], uri[11]>>
       = <<"i","m","a","g","e","/">>

\* C1: every image submission (checkIn, checkOut, registerEmployee) carries
\* exactly one representation of the image: for a reference that starts with
\* "data:image/" the text field face_image_base64 holding the reference and
\* no face_image part; for any other reference the file part face_image
\* (face.jpg, image/jpeg) of that reference and no face_image_base64 field.
C1_ExactlyOneRepresentation ==
  encDone =>
    LET b64  == PartsNamed(wire, "face_image_base64")
        file == PartsNamed(wire, "face_image")
    IN  IF HasDataImagePrefix(encUri)
          THEN /\ file = {}
               /\ Cardinality(b64) = 1
               /\ \A i \in b64 : /\ wire.parts[i].kind = "text"
                                 /\ wire.parts[i].value = encUri
          ELSE /\ b64 = {}
               /\ Cardinality(file) = 1
               /\ \A i \in file : /\ wire.parts[i].kind = "file"
                                  /\ wire.parts[i].value = encUri
                                  /\ wire.parts[i].filename = "face.jpg"
                                  /\ wire.parts[i].type = "image/jpeg"

C1_Witness ==
  /\ encDone
  /\ encOp = "registerEmployee"
  /\ HasDataImagePrefix(encUri)
  /\ PartsNamed(wire, "face_image_base64") # {}

\* C2: no authenticated request (any request but the login request) is
\* issued while no token is stored.
C2_NoRequestWithoutToken ==
  wire.ep \notin {"none", LoginEp} => token # NULL

\* C3: when a 401 response to an authenticated call has been handled, both
\* store entries are removed and the caller is shown an AuthExpired
\* condition instead of the handler's generic failure alert.
C3_Unauthorized_ClearsSession ==
  (handled.code = 401 /\ handled.ep # LoginEp) =>
    /\ token = NULL
    /\ user = NoItem
    /\ alert.title = "AuthExpired"

\* C4: an end-of-list event while page = pagination.pages changes neither
\* the page nor the records and issues no request.
C4_LoadMoreAtLastPageIsNoOp ==
  [][ (lastEvt'.op = "loadMore" /\ pagination.known /\ page = pagination.pages)
        => /\ page' = page
           /\ records' = records
           /\ pagination' = pagination
           /\ inflight' = inflight ]_vars

C4_Witness ==
  /\ lastEvt.op = "loadMore"
  /\ pagination.known
  /\ page = pagination.pages
  /\ page > 1
  /\ inflight = EmptyBag

\* C5: after a pull-to-refresh on a quiet screen, once every request it
\* caused has been answered successfully (the backend's list unchanged),
\* the page is 1 and the displayed records are the records of page 1.
C5_RefreshShowsPageOne ==
  (watch = "refresh" /\ inflight = EmptyBag) =>
    /\ page = 1
    /\ records = PageRecords(1, srvPages)

Count(class, s) == Cardinality({i \in 1..Len(s) : s[i] \in class})

\* C6: validatePassword returns null exactly for the passwords of length at
\* least 8 with at least one letter A-Z, one letter a-z and one digit 0-9;
\* it rejects "abc", "alllowercase1", "ALLUPPERCASE1" and "NoDigitsHere" and
\* accepts "Valid1Pass".
C6_PasswordRule ==
  pwdResult # Unchecked =>
    /\ (pwdResult = NULL) <=>
         /\ Len(pwd) >= 8
         /\ Count(UpperChars, pwd) >= 1
         /\ Count(LowerChars, pwd) >= 1
         /\ Count(DigitChars, pwd) >= 1
    /\ pwd \in {PwdAbc, PwdAllLowercase1, PwdAllUppercase1, PwdNoDigitsHere}
         => pwdResult # NULL
    /\ pwd = PwdValid1Pass => pwdResult = NULL

C6_Witness ==
  /\ pwd = PwdValid1Pass
  /\ pwdResult = NULL

\* C7: when AuthService.login has returned, a returned role admin is routed
\* to AdminTabs and any other returned role to EmployeeTabs; a login whose
\* response is not ok routes nowhere, and nothing but a returned login
\* leaves the Login screen.
C7_LoginRouting ==
  [][ /\ (loginPc = "setUser" /\ loginPc' = "idle") =>
           route' = (IF loginData = "admin" THEN "AdminTabs" ELSE "EmployeeTabs")
      /\ (handled'.ep = LoginEp /\ handled'.code \notin 200..299) =>
           (route' = "Login" /\ loginPc' = "idle")
      /\ (route = "Login" /\ route' # "Login") =>
           (loginPc = "setUser" /\ getUser' = EmployeeOf(loginData)) ]_vars

C7_Witness ==
  /\ route = "AdminTabs"
  /\ getUser.role = RoleChars("admin")
  /\ token = TokenOf("admin")

\* C8: an attempt whose location permission status is not 'granted' never
\* gets to the position request or to the check-in/check-out request, and
\* ends failed with the permission error, without any request.
C8_PermissionDeniedNoRequest ==
  /\ \A fl \in BagToSet(flows) :
       fl.pc \in {"pos", "submit"} => fl.perm = "granted"
  /\ done.perm \in {"denied", "undetermined"} =>
       /\ done.result = "failed"
       /\ done.error = PermissionMsg
       /\ alert = Alert(FailedTitle(done.kind), PermissionMsg)
       /\ wire.ep = "none"

C8_Witness ==
  /\ done.perm = "denied"
  /\ done.result = "failed"
  /\ done.kind = "checkIn"

\* C9: every request to the backend other than the login request carries
\* Authorization: Bearer <token> when a token is stored and no Authorization
\* header when none is stored.
C9_BearerOrNoHeader ==
  wire.ep \notin {"none", LoginEp} =>
    wire.auth = (IF token = NULL THEN NoHeader ELSE "Bearer " \o token)

\* C10: when the response of a load-more fetch arrives, the displayed list
\* becomes the previously displayed records followed by the records of the
\* fetched page.
C10_AppendKeepsEarlierPages ==
  [][ ( /\ lastEvt.op = "loadMore" /\ lastEvt.ok
        /\ BagCardinality(inflight) = 1
        /\ lastEvt'.op = "response" /\ lastEvt'.ok )
        => records' = records \o PageRecords(lastEvt'.page, srvPages) ]_vars

StatusEp == "/api/employee/status"

SubmitEps == {"/api/attendance/check-in", "/api/attendance/check-out"}

\* the Check In / Check Out button or the camera's shutter is on screen
TriggerShown ==
  /\ HomeMounted
  /\ ~homeLoading
  /\ \/ capturing
     \/ ~processing /\ ~(status.checked_in /\ status.checked_out)

\* C11: at most one handleCheckIn/handleCheckOut invocation is between its
\* start and its completion, and while one is, neither the Check In /
\* Check Out button nor the camera's shutter is available.
C11_OneSubmissionInFlight ==
  /\ BagCardinality(flows) <= 1
  /\ (HomeMounted /\ flows # EmptyBag) => ~TriggerShown

NumAt(pc) == BagCardinality([fl \in FlowsAt(pc) |-> CopiesIn(fl, flows)])

FieldValue(req, n) == {req.parts[i].value : i \in PartsNamed(req, n)}

\* C12: within an attempt the steps follow one another: an attempt starts
\* its permission request only when a capture has completed, its position
\* request only when a permission request has completed with 'granted', and
\* its submission only when a position request has completed with a
\* position; the request then sent carries that position's coordinates.
C12_StepsInOrder ==
  [][ /\ NumAt("perm")' > NumAt("perm") =>
           /\ Len(shots') = Len(shots) - 1
           /\ NumAt("perm")' = NumAt("perm") + 1
      /\ NumAt("pos")' > NumAt("pos") =>
           /\ NumAt("perm")' = NumAt("perm") - 1
           /\ NumAt("pos")' = NumAt("pos") + 1
           /\ \A fl \in FlowsAt("pos")' : fl.perm = "granted"
      /\ NumAt("submit")' > NumAt("submit") =>
           /\ NumAt("pos")' = NumAt("pos") - 1
           /\ NumAt("submit")' = NumAt("submit") + 1
           /\ located' # NoFix
           /\ wire'.ep \in SubmitEps
      /\ wire'.ep \in SubmitEps =>
           /\ NumAt("submit")' = NumAt("submit") + 1
           /\ located' \in Positions
           /\ FieldValue(wire', "latitude") = {located'.latitude}
           /\ FieldValue(wire', "longitude") = {located'.longitude} ]_vars

C12_Witness ==
  /\ wire.ep = "/api/attendance/check-out"
  /\ located = Coords(<<"9", ".", "1">>, <<"7", ".", "2">>)
  /\ NumAt("submit") = 1

\* C13 as stated: while the home screen is unmounted no status request is
\* started.
C13_NoStatusRequestAfterUnmount ==
  [][ (~HomeMounted /\ ~HomeMounted') => wire'.ep # StatusEp ]_vars

\* C13: the interval is set exactly while the home screen is mounted, and
\* the only status request started while the screen is unmounted is the
\* loadStatus() of an attempt of the unmounted screen whose submission
\* succeeded.
C13_PollCancelledOnUnmount ==
  [][ /\ interval' = HomeMounted'
      /\ (~HomeMounted /\ ~HomeMounted' /\ wire'.ep = StatusEp) =>
           (done'.result = "success" /\ handled'.ep \in SubmitEps) ]_vars

C13_Witness ==
  /\ ~HomeMounted
  /\ ~interval
  /\ flows # EmptyBag

FileScheme == <<"f","i","l","e",":","/","/","/">>

\* an image reference that names an image: a data:image/ URI with content
\* or a file URI with a path
WellFormedImageUri(uri) ==
  \/ StartsWith(uri, DataImagePrefix) /\ Len(uri) > Len(DataImagePrefix)
  \/ StartsWith(uri, FileScheme) /\ Len(uri) > Len(FileScheme)

\* C15: an image submission (checkIn, checkOut, registerEmployee) called
\* with an empty or malformed image reference sends no request.
C15_BadUriRejectedLocally ==
  (encDone /\ ~WellFormedImageUri(encUri)) => wire = NoReq

\* C16: when logout returns, both entries are absent, whatever the store
\* held before; a logout on a store that holds neither entry changes
\* nothing at either of its steps; logout never throws.
C16_LogoutClearsIdempotently ==
  [][ /\ (authPc = "rmUser" /\ authPc' = "idle") =>
           /\ token' = NULL
           /\ user' = NoItem
           /\ got' = Got("logout", FALSE, NULL, NullEmployee)
      /\ ("rmUser" \in {authPc, authPc'} /\ token = NULL /\ user = NoItem) =>
           (token' = token /\ user' = user) ]_vars

C16_Witness ==
  /\ got.call = "logout"
  /\ ~got.threw
  /\ token = NULL
  /\ user = NoItem

\* C17: when login returns, getToken gives the token of the response and
\* getUser the employee record of the response; the entries change only in
\* a step of login or of logout; getToken and getUser return what is stored
\* without throwing, and null when nothing is stored.
C17_SessionPersisted ==
  [][ /\ (authPc = "setUser" /\ authPc' = "idle") =>
           /\ getToken' = authData.token
           /\ getUser' = authData.employee
           /\ got' = Got("login", FALSE, authData.token, authData.employee)
      /\ (token' # token \/ user' # user) => authPc' # authPc
      /\ got'.call = "getToken" =>
           /\ ~got'.threw
           /\ got'.token = token
      /\ got'.call = "getUser" =>
           /\ ~got'.threw
           /\ user = NoItem => got'.employee = NullEmployee
           /\ user # NoItem =>
                (got'.employee \in Employees
                   /\ JSONstringify(got'.employee) = user.text) ]_vars

C17_Witness ==
  /\ got.call = "getUser"
  /\ got.employee.name = <<"a", Quote, "}">>
  /\ token \in Tokens

\* the alerts of the local checks of handleLogin, handleRegister, handleSave
\* and handleAssign
ValidationAlerts ==
  { Alert("Error", "Please fill in all fields"),
    Alert("Error", "Please fill all fields and capture face image"),
    Alert("Error", "Please fill all required fields"),
    Alert("Error", "Please select a shift") }
    \cup { Alert("Invalid Password", validatePassword(p)) :
               p \in {PwdAbc, PwdAllLowercase1, PwdAllUppercase1,
                      PwdNoDigitsHere} }

StrongPassword(p) ==
  /\ Len(p) >= 8
  /\ Count(UpperChars, p) >= 1
  /\ Count(LowerChars, p) >= 1
  /\ Count(DigitChars, p) >= 1

\* C14: a step that shows the validation error of the login form, of the
\* registration form, of the shift form or of the assignment screen sends
\* no request and starts no operation; and a login, registration, shift
\* save or assignment request is sent only from a form that passes the
\* local checks: both credentials non-empty; every registration field and
\* the captured image present and the password strong; shift name
\* non-empty and at least one day selected; a shift selected.
C14_InvalidFormSendsNothing ==
  [][ /\ alert' \in ValidationAlerts =>
           /\ wire' = NoReq
           /\ pending' = pending
           /\ loginPc' = loginPc
           /\ saving' = saving
      /\ wire'.ep = "/api/auth/login" =>
           /\ <<>> \notin FieldValue(wire', "email")
           /\ <<>> \notin FieldValue(wire', "password")
      /\ wire'.ep = "/api/admin/register-employee" =>
           /\ regForm.employeeId # <<>> /\ regForm.name # <<>>
           /\ regForm.email # <<>> /\ regForm.password # <<>>
           /\ regForm.capturedImage # <<>>
           /\ StrongPassword(regForm.password)
      /\ (wire'.ep \in {"/api/admin/shifts", "/api/admin/shifts/:id"}
          /\ wire'.method \in {"POST", "PUT"}) =>
           /\ shiftForm.shiftName # <<>>
           /\ shiftForm.selectedDays # <<>>
      /\ wire'.ep = "/api/admin/employees/:id/assign-shift" =>
           selectedShift # NoSelection ]_vars

\* the registration form with a weak password has been submitted
C14_Witness ==
  /\ alert.title = "Invalid Password"
  /\ adminTab = "Register"
  /\ regForm.capturedImage # <<>>
  /\ wire = NoReq

\* the requests that change something on the server
IsMutation(req) == req.method \in {"POST", "PUT", "PATCH", "DELETE"}

\* the operations that have sent such a request and not had its response
InFlight ==
  Mutations + NumAt("submit") + (IF loginPc = "fetch" THEN 1 ELSE 0)

\* a step that sends no mutating request on its own: the handling of a
\* failed response sends nothing, a mutating request is sent only by a step
\* of a user's action and adds one operation to those in flight, which its
\* one response removes
NoRetryStep ==
  /\ (handled' # NoResp /\ handled'.code \notin 200..299) =>
       wire' = NoReq
  /\ IsMutation(wire') =>
       /\ handled' = NoResp
       /\ InFlight' = InFlight + 1
       /\ \/ loginPc = "idle" /\ loginPc' = "fetch"
          \/ NumAt("pos")' = NumAt("pos") - 1
          \/ pressed' \in {"Delete", "Confirm"}
          \/ ~saving /\ saving'
  /\ (handled' # NoResp
      /\ handled'.ep \notin {StatusEp, "/api/admin/employees",
                              "/api/admin/shifts"}) =>
       InFlight' = InFlight - 1

\* the step that follows a failed response sends a request to the endpoint
\* that failed
Reissue ==
  /\ handled # NoResp
  /\ handled.code \notin 200..299
  /\ wire'.ep = handled.ep

\* the step belongs to a user's action: a press, a flow of a shutter press,
\* a navigation, or the refresh after the success of a user's operation
UserStep ==
  \/ loginPc = "idle" /\ loginPc' = "fetch"
  \/ NumAt("pos")' < NumAt("pos")
  \/ pressed' # NoButton
  \/ ~saving /\ saving'
  \/ adminTab' # adminTab
  \/ handled' # NoResp /\ handled'.code \in 200..299

\* the step of the interval of EmployeeHomeScreen
TimerStep ==
  /\ interval
  /\ handled' = NoResp
  /\ wire'.ep = StatusEp

\* C18 as stated: no failed operation is sent again except by a step of a
\* user's action, and each user action sends at most one mutating request.
C18_NoReissueWithoutUser ==
  [][ NoRetryStep /\ (Reissue => UserStep) ]_vars

\* C18: no failed operation is sent again except by a step of a user's
\* action or, for the status request, by the 30 s interval of the employee
\* home screen; the handling of a failed response sends no request, and
\* each user action sends at most one mutating request, which only its own
\* response takes out of flight.
C18_NoAutomaticRetry ==
  [][ NoRetryStep /\ (Reissue => (UserStep \/ TimerStep)) ]_vars

\* a failed deletion has been handled
C18_Witness ==
  /\ handled.ep = "/api/admin/employees/:id"
  /\ handled.code = 401
  /\ wire = NoReq
  /\ alert.title = "Error"

\* the admin's mutations
AdminMutations == {"deleteEmployee", "updateEmployeeStatus", "deleteShift",
                   "createShift", "updateShift", "assignShift",
                   "registerEmployee"}

\* the step handles the response of op
Answered(op) ==
  /\ handled' # NoResp
  /\ CopiesIn(op, pending') < CopiesIn(op, pending)

\* the detail of the 401 response of the backend
ServerMessage == "Could not validate credentials"

\* C19: the step that handles the failed response of an admin mutation
\* shows the server's message (the detail of the 401 response, alone or
\* after the prefix of registerEmployee) and leaves the lists, the forms,
\* the selection and the screen as they were.
C19_FailureSurfacedStateUntouched ==
  [][ \A op \in AdminMutations :
        (Answered(op) /\ handled'.code \notin 200..299) =>
          /\ handled'.code = 401 =>
               alert'.msg \in {ServerMessage, RegisterPrefix \o ServerMessage}
          /\ UNCHANGED <<employees, shifts, regForm, shiftForm, selectedShift,
                         adminTab, prompt>> ]_vars

\* a DELETE request or the PATCH of an employee's status
IsDestructive(req) ==
  \/ req.method = "DELETE"
  \/ req.ep = "/api/admin/employees/:id/status"

\* C20: a DELETE or status request is sent only by the step in which the
\* confirming button ('Delete' / 'Confirm') of an open confirmation prompt
\* is pressed, and it is the request that prompt asked about; the step in
\* which 'Cancel' of such a prompt is pressed sends no request and changes
\* nothing but closing the prompt.
C20_DestructiveOnlyAfterConfirm ==
  [][ /\ IsDestructive(wire') =>
           /\ prompt.kind \in DestructiveKinds
           /\ pressed' = (IF prompt.kind = "updateEmployeeStatus"
                            THEN "Confirm" ELSE "Delete")
           /\ prompt' = NoPrompt
           /\ wire'.ep = MutationEp(prompt.kind)
           /\ prompt.id \in FieldValue(wire', ":id")
      /\ (prompt.kind \in DestructiveKinds /\ pressed' = "Cancel") =>
           /\ wire' = NoReq
           /\ prompt' = NoPrompt
           /\ UNCHANGED <<employees, shifts, pending, regForm, shiftForm,
                          selectedShift, adminTab, saving, sessionVars,
                          route>> ]_vars

\* the deletion of an employee has been confirmed and sent
C20_Witness ==
  /\ pressed = "Delete"
  /\ wire.method = "DELETE"
  /\ wire.ep = "/api/admin/employees/:id"
  /\ BagIn("deleteEmployee", pending)

\* C21: the list request sent after a successful delete or status toggle on
\* the employees screen asks for page 1.
C21_ReloadFromPageOne ==
  lastEvt.op = "reload" => lastEvt.page = 1

\* C22: when the step has handled a non-2xx response whose body is JSON
\* with a detail field (the 401 response), the message shown is that detail
\* itself, neither prefixed nor replaced.
C22_DetailShownVerbatim ==
  (handled # NoResp /\ handled.code = 401) => alert.msg = ServerMessage

\* C23: once a pagination with at least one page has been received, the
\* screen's page is at most its page count, and a list request that a
\* step sends asks for a page that is at most that page count.
C23_PageWithinTotal ==
  (pagination.known /\ pagination.pages >= 1) =>
    /\ page <= pagination.pages
    /\ (lastEvt.ok /\ lastEvt.op \in {"loadMore", "refresh", "reload"}) =>
         lastEvt.page <= pagination.pages

\* C24: after applyFilter, clearFilter or a date change on a quiet screen,
\* once every request it caused has been answered successfully, the page
\* is 1 and the list shown is page 1 of the query with the date and the
\* employee filter now in effect.
C24_FilterShowsPageOne ==
  (filterWatch = "filter" /\ Quiet) =>
    /\ attPage = 1
    /\ shown = getAttendanceQuery(selectedDate, employeeIdFilter, 1)

\* the endpoints that take a multipart body and those that take a JSON body
MultipartEps == {"/api/attendance/check-in", "/api/attendance/check-out",
                 "/api/admin/register-employee", "/api/admin/shifts",
                 "/api/admin/shifts/:id",
                 "/api/admin/employees/:id/assign-shift"}

JsonEps == {"/api/auth/login", "/api/admin/settings/bulk-update"}

\* C25: a request sent with a multipart body has no Content-Type header set
\* by the code, and a request sent with a JSON body has Content-Type
\* application/json; check-in, check-out, register employee, create /
\* update shift and assign shift are sent with a multipart body, login and
\* the settings bulk update with a JSON body.
C25_ContentTypeByBody ==
  /\ wire.bodyKind = "multipart" => wire.ctype = NoHeader
  /\ wire.bodyKind = "json" => wire.ctype = "application/json"
  /\ (wire.ep \in MultipartEps /\ wire.method \in {"POST", "PUT"}) =>
       wire.bodyKind = "multipart"
  /\ wire.ep \in JsonEps => wire.bodyKind = "json"

\* a shift has been submitted for creation
C25_Witness ==
  /\ wire.ep = "/api/admin/shifts"
  /\ wire.method = "POST"
  /\ wire.bodyKind = "multipart"
  /\ BagIn("createShift", pending)

\* an attempt is running
AttemptRunning == flows # EmptyBag

\* control is back at Idle: no attempt is running and the mounted screen
\* shows neither the spinner nor the camera
BackAtIdle ==
  /\ flows = EmptyBag
  /\ HomeMounted => (~processing /\ ~capturing)

C27_StoreWrittenByLoginLogoutOnly ==
  [][ /\ token' # token =>
           \/ /\ loginPc = "fetch"
              /\ handled'.ep = "/api/auth/login"
              /\ handled'.code \in 200..299
              /\ token' \in Tokens
           \/ /\ logoutPc = "prompt"
              /\ pressed' = "Logout"
              /\ token' = NULL
      /\ user' # user =>
           \/ loginPc = "setUser" /\ user'.has
           \/ logoutPc = "rmUser" /\ user' = NoItem
      /\ (handled'.ep = "/api/auth/login" /\ handled'.code \notin 200..299) =>
           UNCHANGED <<token, user>> ]_vars

\* a login has failed while a session was stored
C27_Witness ==
  /\ handled.ep = "/api/auth/login"
  /\ handled.code = 401
  /\ token \in Tokens
  /\ user.has
  /\ alert.title = "Login Failed"

\* C28: no check-in or check-out request is sent while the status last
\* fetched has both checked_in and checked_out true, and the flow a capture
\* starts is the check-out flow if the status held at that step has
\* checked_in true and the check-in flow otherwise.
C28_SubmissionMatchesStatus ==
  [][ /\ wire'.ep \in SubmitEps =>
           ~(status'.checked_in /\ status'.checked_out)
      /\ NumAt("perm")' > NumAt("perm") =>
           \E fl \in FlowsAt("perm")' :
             fl.kind = IF status.checked_in THEN "checkOut" ELSE "checkIn" ]_vars

\* the records a response carries for page p of n pages
RecordsOf(p, n) ==
  IF p >= 1 /\ p <= n THEN [k \in 1..PageSize |-> (p - 1) * PageSize + k]
                      ELSE <<>>

\* records and pagination are both initial, or both those of the response
\* to the request of one page p while the backend held n pages
FromOneResponse ==
  \/ records = <<>> /\ pagination = NoPagination
  \/ \E p \in 1..(MaxPages + 1), n \in 0..MaxPages :
       /\ records = RecordsOf(p, n)
       /\ pagination = Pagination(TRUE, p, n)

\* C29: after every step the displayed records and the displayed pagination
\* are both initial or both taken from one response, whatever requests
\* overlap; and the step that handles a failed response changes neither.
C29_RecordsAndPaginationTogether ==
  [][ /\ FromOneResponse'
      /\ (lastEvt'.op = "response" /\ ~lastEvt'.ok) =>
           UNCHANGED <<records, pagination>> ]_vars

\* the response to the request of page 2 is shown while another request of
\* the screen is still in flight
C29_Witness ==
  /\ lastEvt = Evt("response", 2, TRUE)
  /\ pagination = Pagination(TRUE, 2, srvPages)
  /\ records = RecordsOf(2, srvPages)
  /\ records # <<>>
  /\ inflight # EmptyBag

\* C30: whenever neither a login nor a logout is between its two storage
\* calls, the store holds either no token and no user, or the token and the
\* employee record of one and the same login response; a store that holds
\* exactly one of the two entries is seen only between the two setItem
\* calls of a login or the two removeItem calls of a logout.
StoreInProgress == loginPc = "setUser" \/ logoutPc = "rmUser"

StoreConsistent ==
  \/ token = NULL /\ user = NoItem
  \/ \E r \in Roles :
       /\ token = TokenOf(r)
       /\ user.has
       /\ getUser = EmployeeOf(r)

====
